---- MODULE Spec2Model ----
(***************************************************************************)
(* The mention worker of deep1283/signalze: Worker.run_once               *)
(* (mention_worker/pipeline.py) over the store operations of               *)
(* mention_worker/db.py.  Invocations run on separate connections; the    *)
(* store keeps committed rows, each connection its uncommitted writes.     *)
(* Time is in seconds.                                                     *)
(***************************************************************************)
EXTENDS Integers, Sequences, FiniteSets, TLC

\* ------------------------------------------------------------ bounds
\* Runs (invocations of run_once that took the lock) over a behaviour.
MaxRuns == 2
\* Minutes the clock advances over a behaviour.
MaxTicks == 2

\* The hosts that invoke run_once.
Workers == {"w1", "w2"}
\* The clock advances by one minute at a time.
TickSeconds == {60}
\* The clock at the start: 90 seconds before a UTC midnight.
StartTime == 86310
\* What Search returns for a task: the external ids, in response order.
Responses == {<<>>, <<"x1">>, <<"x1", "x1">>}
\* Counter values fetch_today_source_requests may report for a capped source.
TodayCounts == {0, 1}

\* The arguments of _retry_delay_seconds and the settings it is looked at with.
MaxRetryCount == 6
RetryBases == {0, 1, 60, 700}
RetryMaxes == {100, 1800, 3600}

\* SQL null / Python None for a timestamp, a limit or a run id.
Null == -1

Min(a, b) == IF a <= b THEN a ELSE b
Max(a, b) == IF a >= b THEN a ELSE b

SECONDS_PER_MINUTE == 60
SECONDS_PER_DAY == 86400

\* ------------------------------------------------------------ registry
\* Four of the registry's entries: two with an adapter that is built, one whose
\* credentials are missing and one without a builder.
SOURCE_DEFINITIONS ==
  << [key |-> "hackernews", default_enabled |-> TRUE,
      free_tier_daily_limit |-> 2000, builder |-> "_build_hackernews"],
     [key |-> "github_discussions", default_enabled |-> TRUE,
      free_tier_daily_limit |-> 1000, builder |-> "_build_github_discussions"],
     [key |-> "reddit", default_enabled |-> FALSE,
      free_tier_daily_limit |-> 500, builder |-> "_build_reddit"],
     [key |-> "google", default_enabled |-> FALSE,
      free_tier_daily_limit |-> 100, builder |-> "None"] >>

source_keys == {SOURCE_DEFINITIONS[i].key : i \in DOMAIN SOURCE_DEFINITIONS}

\* ------------------------------------------------------------ settings
\* The Settings record of one deployment: the defaults of load_settings with
\* POLL_INTERVAL_MINUTES=2, SOURCE_GITHUB_DISCUSSIONS_POLL_INTERVAL_MINUTES=1,
\* FREE_TIER_MODE=false, SOURCE_GITHUB_DISCUSSIONS_DAILY_REQUEST_LIMIT=1,
\* SOURCE_TASK_BATCH_SIZE=2, ALERT_BATCH_SIZE=2, MAX_ALERT_RETRIES=2,
\* SOURCE_REDDIT_ENABLED and SOURCE_GOOGLE_ENABLED on, a GITHUB_TOKEN and no
\* reddit credentials.
settings ==
  [ worker_lock_key |-> 84521791,
    poll_interval_minutes |-> 2,
    overlap_minutes |-> 3,
    source_task_batch_size |-> 2,
    alert_batch_size |-> 2,
    max_alert_retries |-> 2,
    retry_base_seconds |-> 60,
    retry_max_seconds |-> 1800,
    github_token |-> TRUE,
    reddit_credentials |-> FALSE,
    source_enabled |-> [s \in source_keys |-> TRUE],
    source_poll_interval_minutes |->
      [s \in source_keys |-> IF s = "github_discussions" THEN 1 ELSE 2],
    source_daily_request_limit |->
      [s \in source_keys |-> IF s = "github_discussions" THEN 1 ELSE Null] ]

is_source_enabled(source) ==
  IF source \in DOMAIN settings.source_enabled
  THEN settings.source_enabled[source] ELSE FALSE

poll_interval_for_source(source) ==
  IF source \in DOMAIN settings.source_poll_interval_minutes
  THEN settings.source_poll_interval_minutes[source]
  ELSE settings.poll_interval_minutes

daily_request_limit_for_source(source) ==
  IF source \in DOMAIN settings.source_daily_request_limit
  THEN settings.source_daily_request_limit[source] ELSE Null

\* Whether a registry builder returns an adapter under the settings.
builder_returns_client(builder) ==
  CASE builder = "_build_hackernews" -> TRUE
    [] builder = "_build_github_discussions" -> settings.github_token
    [] builder = "_build_reddit" -> settings.reddit_credentials
    [] OTHER -> FALSE

\* The keys of the adapter map of a run.
_build_sources ==
  { SOURCE_DEFINITIONS[i].key : i \in
      { j \in DOMAIN SOURCE_DEFINITIONS :
          /\ is_source_enabled(SOURCE_DEFINITIONS[j].key)
          /\ SOURCE_DEFINITIONS[j].builder # "None"
          /\ builder_returns_client(SOURCE_DEFINITIONS[j].builder) } }

\* ------------------------------------------------------------ tables read only here
profiles ==
  [ u \in {"u1", "u2", "u3"} |->
      [is_active |-> u # "u3",
       slack_webhook_url_enc |->
         IF u = "u1" THEN [is_none |-> FALSE, text |-> <<"h", "t", "t", "p", "s", ":">>]
         ELSE [is_none |-> TRUE, text |-> <<>>]] ]

keywords ==
  [ k \in {"k1", "k2", "k3", "k4"} |->
      [user_id |-> CASE k = "k1" -> "u1" [] k = "k2" -> "u2"
                     [] k = "k3" -> "u1" [] OTHER -> "u3",
       is_active |-> k # "k3"] ]

keyword_sources ==
  { [keyword_id |-> "k1", source |-> "github_discussions", enabled |-> TRUE],
    [keyword_id |-> "k2", source |-> "github_discussions", enabled |-> TRUE],
    [keyword_id |-> "k1", source |-> "google", enabled |-> TRUE],
    [keyword_id |-> "k2", source |-> "hackernews", enabled |-> FALSE],
    [keyword_id |-> "k3", source |-> "github_discussions", enabled |-> TRUE],
    [keyword_id |-> "k4", source |-> "github_discussions", enabled |-> TRUE] }

\* The (keyword, source) pairs: the keys of keyword_source_state.
Pairs == { <<ks.keyword_id, ks.source>> : ks \in keyword_sources }

\* ------------------------------------------------------------ errors
\* An error string: what it says and how many characters it has.
NoError == [msg |-> "None", len |-> 0]
SearchError == [msg |-> "search failed", len |-> 900]
ChainError == [msg |-> "statement failed", len |-> 40]
SendError == [msg |-> "send failed", len |-> 30]
NotEnabledError == [msg |-> "Source not enabled in worker", len |-> 28]
BudgetError ==
  [msg |-> "Daily source request budget reached; deferred until UTC day rollover",
   len |-> 68]
WebhookError == [msg |-> "Slack webhook missing or invalid", len |-> 32]

\* A store statement that fails outside the chain of a task: str(exc) of the
\* driver's error, with the statement in it.
StoreError == [msg |-> "store statement failed", len |-> 900]

\* error[:800]
Truncate800(error) ==
  [msg |-> error.msg, len |-> IF error.len > 800 THEN 800 ELSE error.len]

\* ------------------------------------------------------------ state
VARIABLES
  now,                   \* the UTC clock, in seconds
  lock_holder,           \* the session holding the advisory lock, or "None"
  worker_runs,           \* public.worker_runs, committed rows; id = position
  keyword_source_state,  \* public.keyword_source_state, by (keyword_id, source)
  mentions,              \* public.mentions, committed rows; id = position
  mention_matches,       \* public.mention_matches, committed rows
  alert_deliveries,      \* public.alert_deliveries, committed rows; id = position
  feed,                  \* what each task's Search returns (a stable stream)
  worker,                \* each invocation's position, locals and open transaction
  delivery_log,          \* by alert id: attempts of the alert loop, Send calls, deliveries
  retry_probe,           \* a call of _retry_delay_seconds: its inputs and its result
  env_probe,             \* a call of load_settings: the environment and its outcome
  adapter_probe,         \* a call of a source adapter: its input and what it returned
  search_log             \* by task with a watermark: the since of its Search, in
                         \* flight or failed

vars == << now, lock_holder, worker_runs, keyword_source_state,
           mentions, mention_matches, alert_deliveries, feed, worker, delivery_log,
           retry_probe, env_probe, adapter_probe, search_log >>

store == << worker_runs, keyword_source_state, mentions, mention_matches,
            alert_deliveries >>

NoRow ==
  [exists |-> FALSE, last_checked_at |-> Null, next_poll_at |-> Null,
   last_error |-> NoError]

\* stats = defaultdict(int): a counter that was never touched reads 0.
ZeroStats ==
  [ tasks_polled |-> 0, task_errors |-> 0, tasks_deferred_budget |-> 0,
    source_mentions_fetched |-> 0, mentions_upserted |-> 0, matches_deduped |-> 0,
    matches_created |-> 0, alerts_enqueued |-> 0, alerts_deduped |-> 0,
    tasks_succeeded |-> 0, alerts_attempted |-> 0, alerts_failed |-> 0,
    alerts_sent |-> 0 ]

ZeroCounts == [s \in source_keys |-> 0]

\* stats without the keys source_requests and source_requests_today_after.
AbsentCounts == [s \in source_keys |-> Null]

\* What run_once gives its caller when an exception leaves it: no return value.
Raised == 2

\* The uncommitted inserts of a connection.
EmptyTxn == [mentions |-> <<>>, mention_matches |-> <<>>, alert_deliveries |-> <<>>]

\* A worker that is not inside run_once; result is what the last call returned.
Idle(result) ==
  [ pc |-> "idle", result |-> result, run_id |-> Null, txn |-> EmptyTxn,
    source_requests_today |-> ZeroCounts, source_requests_run |-> ZeroCounts,
    stats |-> ZeroStats, tasks |-> <<>>, task_now |-> Null, since |-> Null,
    mentions |-> <<>>,
    alerts |-> <<>>, searched |-> {}, deferred |-> {}, enqueue_calls |-> 0 ]

\* No call of _retry_delay_seconds is being looked at.
NoProbe == [retry_count |-> 0, base |-> 0, max |-> 0, delay |-> Null]

\* No task with a watermark has a search in flight or failed.
NoSearches == [p \in Pairs |-> [since |-> Null, outcome |-> "none"]]

\* No call of a source adapter is being looked at.
NoAdapterProbe == [call |-> "none"]

\* No call of load_settings is being looked at.
NoEnvProbe == [env |-> <<>>, outcome |-> "none", loaded |-> <<>>]

Feeds == { [p \in Pairs |-> r] : r \in Responses }

Init ==
  /\ now = StartTime
  /\ lock_holder = "None"
  /\ worker_runs = <<>>
  /\ keyword_source_state = [p \in Pairs |-> NoRow]
  /\ mentions = <<>>
  /\ mention_matches = <<>>
  /\ alert_deliveries = <<>>
  /\ feed \in Feeds
  /\ worker = [w \in Workers |-> Idle(Null)]
  /\ delivery_log = <<>>
  /\ retry_probe = NoProbe
  /\ env_probe = NoEnvProbe
  /\ adapter_probe = NoAdapterProbe
  /\ search_log = NoSearches

Set(w, r) == worker' = [worker EXCEPT ![w] = r]

Bump(stats, counter, n) == [stats EXCEPT ![counter] = @ + n]

\* ------------------------------------------------------------ db.py
\* A lock that is granted whoever holds it.
try_advisory_lock_always(w) == TRUE

\* select pg_try_advisory_lock(key): granted when no other session holds the key.
try_advisory_lock(w) == lock_holder = "None"

\* A connection whose end leaves the lock with the session.
connection_close_leaking(w) == lock_holder

\* conn.close(): the session ends, its advisory lock is released.
connection_close(w) == IF lock_holder = w THEN "None" ELSE lock_holder

\* What a connection reads: the committed rows and its own uncommitted ones.
ViewMentions(w) == mentions \o worker[w].txn.mentions
ViewMatches(w) == mention_matches \o worker[w].txn.mention_matches
ViewAlerts(w) == alert_deliveries \o worker[w].txn.alert_deliveries

create_worker_run(runs) ==
  Append(runs, [status |-> "running", stats |-> ZeroStats,
                source_requests |-> ZeroCounts,
                source_requests_today_after |-> ZeroCounts, error |-> NoError])

\* An update that writes the stats and the error and leaves the status.
finish_worker_run_keeping_status(runs, run_id, status, stats, requests, today_after, error) ==
  [runs EXCEPT ![run_id] =
     [status |-> @.status, stats |-> stats, source_requests |-> requests,
      source_requests_today_after |-> today_after, error |-> error]]

finish_worker_run(runs, run_id, status, stats, requests, today_after, error) ==
  [runs EXCEPT ![run_id] =
     [status |-> status, stats |-> stats, source_requests |-> requests,
      source_requests_today_after |-> today_after, error |-> error]]

\* coalesce(st.next_poll_at, now())
PollKey(ks) ==
  LET st == keyword_source_state[<<ks.keyword_id, ks.source>>]
  IN  IF st.next_poll_at = Null THEN now ELSE st.next_poll_at

\* The sequences over S without repetition, ascending in key (ties in any order).
SortedSeqs(S, key) ==
  { q \in [1..Cardinality(S) -> S] :
      \A i, j \in 1..Cardinality(S) :
        i < j => (q[i] # q[j] /\ key[q[i]] <= key[q[j]]) }

Limit(q, n) == [i \in 1..Min(n, Len(q)) |-> q[i]]

SourceTask(ks) ==
  [ keyword_id |-> ks.keyword_id,
    user_id |-> keywords[ks.keyword_id].user_id,
    source |-> ks.source,
    last_checked_at |-> keyword_source_state[<<ks.keyword_id, ks.source>>].last_checked_at ]

\* The query without its conditions on the keyword and the profile.
fetch_due_source_tasks_any_owner(batch_size, enabled_sources) ==
  IF enabled_sources = {} THEN { <<>> }
  ELSE
    LET due == { ks \in keyword_sources :
                   /\ ks.enabled
                   /\ ks.source \in enabled_sources
                   /\ PollKey(ks) <= now }
    IN  { [i \in DOMAIN Limit(q, batch_size) |-> SourceTask(q[i])] :
            q \in SortedSeqs(due, [ks \in due |-> PollKey(ks)]) }

\* The query without its order by clause.
fetch_due_source_tasks_unordered(batch_size, enabled_sources) ==
  IF enabled_sources = {} THEN { <<>> }
  ELSE
    LET due == { ks \in keyword_sources :
                   /\ ks.enabled
                   /\ keywords[ks.keyword_id].is_active
                   /\ profiles[keywords[ks.keyword_id].user_id].is_active
                   /\ ks.source \in enabled_sources
                   /\ PollKey(ks) <= now }
    IN  { [i \in DOMAIN Limit(q, batch_size) |-> SourceTask(q[i])] :
            q \in SortedSeqs(due, [ks \in due |-> 0]) }

\* The query with an inner join on keyword_source_state: a pair without a state
\* row is not returned.
fetch_due_source_tasks_polled_only(batch_size, enabled_sources) ==
  IF enabled_sources = {} THEN { <<>> }
  ELSE
    LET due == { ks \in keyword_sources :
                   /\ ks.enabled
                   /\ keywords[ks.keyword_id].is_active
                   /\ profiles[keywords[ks.keyword_id].user_id].is_active
                   /\ ks.source \in enabled_sources
                   /\ keyword_source_state[<<ks.keyword_id, ks.source>>].exists
                   /\ PollKey(ks) <= now }
    IN  { [i \in DOMAIN Limit(q, batch_size) |-> SourceTask(q[i])] :
            q \in SortedSeqs(due, [ks \in due |-> PollKey(ks)]) }

\* The task lists the query may return.
fetch_due_source_tasks(batch_size, enabled_sources) ==
  IF enabled_sources = {} THEN { <<>> }
  ELSE
    LET due == { ks \in keyword_sources :
                   /\ ks.enabled
                   /\ keywords[ks.keyword_id].is_active
                   /\ profiles[keywords[ks.keyword_id].user_id].is_active
                   /\ ks.source \in enabled_sources
                   /\ PollKey(ks) <= now }
    IN  { [i \in DOMAIN Limit(q, batch_size) |-> SourceTask(q[i])] :
            q \in SortedSeqs(due, [ks \in due |-> PollKey(ks)]) }

\* A success recorded at the time of the statement, not at checked_at.
mark_source_task_success_at_now(state, keyword_id, source, checked_at, poll_interval_minutes) ==
  [state EXCEPT ![<<keyword_id, source>>] =
     [exists |-> TRUE,
      last_checked_at |-> now,
      next_poll_at |-> now + Max(poll_interval_minutes, 1) * SECONDS_PER_MINUTE,
      last_error |-> NoError]]

mark_source_task_success(state, keyword_id, source, checked_at, poll_interval_minutes) ==
  [state EXCEPT ![<<keyword_id, source>>] =
     [exists |-> TRUE,
      last_checked_at |-> checked_at,
      next_poll_at |-> checked_at + Max(poll_interval_minutes, 1) * SECONDS_PER_MINUTE,
      last_error |-> NoError]]

\* An error record that also moves the watermark.
mark_source_task_error_touching(state, keyword_id, source, error, backoff_minutes) ==
  [state EXCEPT ![<<keyword_id, source>>] =
     [exists |-> TRUE,
      last_checked_at |-> now,
      next_poll_at |-> now + Max(backoff_minutes, 1) * SECONDS_PER_MINUTE,
      last_error |-> Truncate800(error)]]

mark_source_task_error(state, keyword_id, source, error, backoff_minutes) ==
  [state EXCEPT ![<<keyword_id, source>>] =
     [exists |-> TRUE,
      last_checked_at |-> @.last_checked_at,
      next_poll_at |-> now + Max(backoff_minutes, 1) * SECONDS_PER_MINUTE,
      last_error |-> Truncate800(error)]]

\* The positions of the rows of a table that conflict with a key.
MentionConflicts(rows, platform, external_id) ==
  { i \in DOMAIN rows : rows[i].platform = platform /\ rows[i].external_id = external_id }

\* insert ... on conflict (platform, external_id) do update ... returning id:
\* the uncommitted inserts afterwards, and the id.
upsert_mention(committed, pending, platform, external_id) ==
  LET hit == MentionConflicts(committed \o pending, platform, external_id)
  IN  IF hit # {}
      THEN [pending |-> pending, id |-> CHOOSE i \in hit : TRUE]
      ELSE [pending |-> Append(pending, [platform |-> platform, external_id |-> external_id]),
            id |-> Len(committed) + Len(pending) + 1]

MatchConflicts(rows, user_id, mention_id, keyword_id) ==
  { i \in DOMAIN rows :
      /\ rows[i].user_id = user_id
      /\ rows[i].mention_id = mention_id
      /\ rows[i].keyword_id = keyword_id }

\* An insert without its on conflict clause.
insert_mention_match_always(committed, pending, user_id, keyword_id, mention_id) ==
  [pending |-> Append(pending, [user_id |-> user_id, keyword_id |-> keyword_id,
                                mention_id |-> mention_id]),
   inserted |-> TRUE]

\* insert ... on conflict (user_id, mention_id, keyword_id) do nothing returning id:
\* the uncommitted inserts afterwards, and whether a row came back.
insert_mention_match(committed, pending, user_id, keyword_id, mention_id) ==
  IF MatchConflicts(committed \o pending, user_id, mention_id, keyword_id) # {}
  THEN [pending |-> pending, inserted |-> FALSE]
  ELSE [pending |-> Append(pending, [user_id |-> user_id, keyword_id |-> keyword_id,
                                      mention_id |-> mention_id]),
        inserted |-> TRUE]

AlertConflicts(rows, user_id, mention_id, keyword_id, channel) ==
  { i \in DOMAIN rows :
      /\ rows[i].user_id = user_id
      /\ rows[i].mention_id = mention_id
      /\ rows[i].keyword_id = keyword_id
      /\ rows[i].channel = channel }

\* An alert whose first attempt is put off by the retry base.
enqueue_alert_delayed(committed, pending, user_id, keyword_id, mention_id) ==
  IF AlertConflicts(committed \o pending, user_id, mention_id, keyword_id, "slack") # {}
  THEN [pending |-> pending, inserted |-> FALSE]
  ELSE [pending |-> Append(pending,
                      [user_id |-> user_id, keyword_id |-> keyword_id,
                       mention_id |-> mention_id, channel |-> "slack",
                       status |-> "pending", retry_count |-> 0,
                       next_attempt_at |-> now + settings.retry_base_seconds,
                       last_error |-> NoError]),
        inserted |-> TRUE]

\* insert ... values (..., 'pending', now()) on conflict (user_id, mention_id,
\* keyword_id, channel) do nothing returning id; channel takes the column default.
enqueue_alert(committed, pending, user_id, keyword_id, mention_id) ==
  IF AlertConflicts(committed \o pending, user_id, mention_id, keyword_id, "slack") # {}
  THEN [pending |-> pending, inserted |-> FALSE]
  ELSE [pending |-> Append(pending,
                      [user_id |-> user_id, keyword_id |-> keyword_id,
                       mention_id |-> mention_id, channel |-> "slack",
                       status |-> "pending", retry_count |-> 0,
                       next_attempt_at |-> now, last_error |-> NoError]),
        inserted |-> TRUE]

PendingAlert(rows, id) ==
  [ alert_id |-> id,
    retry_count |-> rows[id].retry_count,
    user_id |-> rows[id].user_id,
    webhook_url |-> profiles[rows[id].user_id].slack_webhook_url_enc ]

\* A webhook text that is set and is not a URL.
NotAUrl == [is_none |-> FALSE, text |-> <<"f", "t", "p", ":">>]

\* p.slack_webhook_url_enc as the join may read it: the profile's column, which
\* a user without a webhook may have filled with a text that is not a URL.
Webhooks(user_id) ==
  IF profiles[user_id].slack_webhook_url_enc.is_none
  THEN {profiles[user_id].slack_webhook_url_enc, NotAUrl}
  ELSE {profiles[user_id].slack_webhook_url_enc}

\* The rows of ids joined with their profiles, in the order of ids.
JoinedAlerts(rows, ids) ==
  LET S == { ids[i] : i \in DOMAIN ids }
      reads == { f \in [S -> UNION { Webhooks(rows[id].user_id) : id \in S }] :
                   \A id \in S : f[id] \in Webhooks(rows[id].user_id) }
  IN  { [i \in DOMAIN ids |-> [PendingAlert(rows, ids[i]) EXCEPT !.webhook_url = f[ids[i]]]] :
          f \in reads }

\* The query without its filter on status.
fetch_pending_alerts_any_status(rows, limit, max_retries) ==
  LET due == { i \in DOMAIN rows :
                 /\ rows[i].next_attempt_at <= now
                 /\ rows[i].retry_count < max_retries }
      key == [i \in due |-> rows[i].next_attempt_at]
  IN  UNION { JoinedAlerts(rows, Limit(q, limit)) : q \in SortedSeqs(due, key) }

\* The alert lists the query may return.
fetch_pending_alerts(rows, limit, max_retries) ==
  LET due == { i \in DOMAIN rows :
                 /\ rows[i].status \in {"pending", "failed"}
                 /\ rows[i].next_attempt_at <= now
                 /\ rows[i].retry_count < max_retries }
      key == [i \in due |-> rows[i].next_attempt_at]
  IN  UNION { JoinedAlerts(rows, Limit(q, limit)) : q \in SortedSeqs(due, key) }

\* A delivery that starts the retry count again.
mark_alert_sent_resetting(rows, alert_id) ==
  [rows EXCEPT ![alert_id] = [@ EXCEPT !.status = "sent", !.last_error = NoError,
                                       !.retry_count = 0]]

mark_alert_sent(rows, alert_id) ==
  [rows EXCEPT ![alert_id] = [@ EXCEPT !.status = "sent", !.last_error = NoError]]

\* A retry that is still scheduled at the last allowed count.
mark_alert_retry_inclusive(rows, alert_id, retry_count, max_retries, next_attempt_at, error) ==
  [rows EXCEPT ![alert_id] =
     [@ EXCEPT !.status = IF retry_count <= max_retries THEN "failed" ELSE "dead_letter",
               !.retry_count = retry_count,
               !.next_attempt_at = next_attempt_at,
               !.last_error = Truncate800(error)]]

mark_alert_retry(rows, alert_id, retry_count, max_retries, next_attempt_at, error) ==
  [rows EXCEPT ![alert_id] =
     [@ EXCEPT !.status = IF retry_count < max_retries THEN "failed" ELSE "dead_letter",
               !.retry_count = retry_count,
               !.next_attempt_at = next_attempt_at,
               !.last_error = Truncate800(error)]]

\* The snapshots of today's per-source counters the store may hand out.
fetch_today_source_requests ==
  { [s \in source_keys |->
       IF daily_request_limit_for_source(s) # Null THEN c ELSE 0] : c \in TodayCounts }

\* ------------------------------------------------------------ pipeline.py helpers
\* A delay that doubles from the first retry on.
_retry_delay_no_offset(retry_count, retry_base_seconds, retry_max_seconds) ==
  Min(retry_base_seconds * (2 ^ retry_count), retry_max_seconds)

_retry_delay(retry_count, retry_base_seconds, retry_max_seconds) ==
  LET exponent == Max(retry_count - 1, 0)
      delay == retry_base_seconds * (2 ^ exponent)
  IN  Min(delay, retry_max_seconds)

_retry_delay_seconds(retry_count) ==
  _retry_delay(retry_count, settings.retry_base_seconds, settings.retry_max_seconds)

\* The global interval whatever the source.
_poll_interval_global(source) == settings.poll_interval_minutes

_poll_interval_for_source(source) == poll_interval_for_source(source)

\* A cap that lets one more request through.
_source_daily_limit_exceeded(source, source_requests_today) ==
  LET limit == daily_request_limit_for_source(source)
  IN  IF limit = Null THEN FALSE ELSE source_requests_today[source] > limit

_source_daily_limit_reached(source, source_requests_today) ==
  LET limit == daily_request_limit_for_source(source)
  IN  IF limit = Null THEN FALSE ELSE source_requests_today[source] >= limit

_minutes_until_utc_day_rollover(t) ==
  LET next_day == ((t + SECONDS_PER_DAY) \div SECONDS_PER_DAY) * SECONDS_PER_DAY
      delta == next_day - t
  IN  Max(delta \div SECONDS_PER_MINUTE, 1)

\* str.startswith
startswith(text, prefix) ==
  Len(text) >= Len(prefix) /\ SubSeq(text, 1, Len(prefix)) = prefix

\* A test for a missing webhook only.
webhook_missing(url) == url.is_none \/ url.text = <<>>

\* not alert.webhook_url or not alert.webhook_url.startswith("http")
webhook_missing_or_invalid(url) ==
  url.is_none \/ url.text = <<>> \/ ~startswith(url.text, <<"h", "t", "t", "p">>)

\* conn.commit(): the connection's uncommitted inserts become committed rows;
\* `alerts` is its view of alert_deliveries after the statement committed.
Commit(w, alerts) ==
  /\ mentions' = ViewMentions(w)
  /\ mention_matches' = ViewMatches(w)
  /\ alert_deliveries' = alerts

\* A loop over the tasks after which the alert loop is not run.
NextTask_skipping_alerts(local) ==
  [local EXCEPT !.tasks = Tail(@), !.mentions = <<>>, !.task_now = Null, !.since = Null,
                !.pc = IF Tail(local.tasks) = <<>> THEN "finish" ELSE "task"]

\* The loop over tasks goes on with the next task, or run_once with the alerts.
NextTask(local) ==
  [local EXCEPT !.tasks = Tail(@), !.mentions = <<>>, !.task_now = Null, !.since = Null,
                !.pc = IF Tail(local.tasks) = <<>> THEN "alerts" ELSE "task"]

\* The loop over alerts goes on with the next alert, or run_once finishes the run.
NextAlert(local) ==
  [local EXCEPT !.alerts = Tail(@),
                !.pc = IF Tail(local.alerts) = <<>> THEN "finish" ELSE "alert"]

LogOf(a) ==
  IF a \in DOMAIN delivery_log THEN delivery_log[a]
  ELSE [attempts |-> 0, sends |-> 0, delivered |-> 0]

Logged(a, entry) ==
  [i \in DOMAIN delivery_log \cup {a} |-> IF i = a THEN entry ELSE delivery_log[i]]

\* ------------------------------------------------------------ run_once
\* pipeline.py 24-27: a host starts run_once; the connection is opened and the lock
\* is taken, or run_once returns 0 and the connection is closed.
run_once_lock(w) ==
  /\ worker[w].pc = "idle"
  /\ lock_holder # "None" \/ Len(worker_runs) < MaxRuns
  /\ IF try_advisory_lock(w)
     THEN /\ lock_holder' = w
          /\ Set(w, [Idle(Null) EXCEPT !.pc = "locked"])
     ELSE /\ lock_holder' = connection_close(w)
          /\ Set(w, Idle(0))
  /\ UNCHANGED << now, store, feed, retry_probe, env_probe, adapter_probe, search_log, delivery_log >>

\* pipeline.py 29
run_once_create_run(w) ==
  /\ worker[w].pc = "locked"
  /\ worker_runs' = create_worker_run(worker_runs)
  /\ Commit(w, ViewAlerts(w))
  /\ Set(w, [worker[w] EXCEPT !.pc = "started", !.run_id = Len(worker_runs) + 1,
                              !.txn = EmptyTxn])
  /\ UNCHANGED << now, lock_holder, keyword_source_state, feed, retry_probe, env_probe, adapter_probe, search_log,
                  delivery_log >>

\* pipeline.py 33-37
run_once_snapshot(w) ==
  /\ worker[w].pc = "started"
  /\ \E today \in fetch_today_source_requests :
       Set(w, [worker[w] EXCEPT !.pc = "tasks", !.source_requests_today = today,
                                !.source_requests_run = ZeroCounts])
  /\ UNCHANGED << now, lock_holder, store, feed, retry_probe, env_probe, adapter_probe, search_log, delivery_log >>

\* ------------------------------------------------------------ _process_source_tasks
\* pipeline.py 107-113
process_source_tasks_fetch(w) ==
  /\ worker[w].pc = "tasks"
  /\ \E q \in fetch_due_source_tasks(settings.source_task_batch_size, _build_sources) :
       Set(w, [worker[w] EXCEPT !.tasks = q,
                                !.stats = Bump(@, "tasks_polled", Len(q)),
                                !.pc = IF q = <<>> THEN "alerts" ELSE "task"])
  /\ UNCHANGED << now, lock_holder, store, feed, retry_probe, env_probe, adapter_probe, search_log, delivery_log >>

\* pipeline.py 116-146: the head of the loop, up to the call of search.
\* A since that is always a day before now, whatever the task's watermark.
since_for_from_now(task, at, overlap_minutes) ==
  (at - SECONDS_PER_DAY) - Max(overlap_minutes, 0) * SECONDS_PER_MINUTE

\* pipeline.py 141-143: the since of a task polled at `at`.
since_for(task, at, overlap_minutes) ==
  (IF task.last_checked_at # Null THEN task.last_checked_at ELSE at - SECONDS_PER_DAY)
    - Max(overlap_minutes, 0) * SECONDS_PER_MINUTE

task_begin(w) ==
  LET local == worker[w]
      task == Head(local.tasks)
  IN
  /\ local.pc = "task"
  /\ IF task.source \notin _build_sources
     THEN /\ keyword_source_state' =
               mark_source_task_error(keyword_source_state, task.keyword_id, task.source,
                                      NotEnabledError, settings.poll_interval_minutes)
          /\ Commit(w, ViewAlerts(w))
          /\ Set(w, NextTask([local EXCEPT !.txn = EmptyTxn,
                                           !.stats = Bump(@, "task_errors", 1)]))
          /\ UNCHANGED search_log
     ELSE IF _source_daily_limit_reached(task.source, local.source_requests_today)
     THEN /\ keyword_source_state' =
               mark_source_task_error(keyword_source_state, task.keyword_id, task.source,
                                      BudgetError, _minutes_until_utc_day_rollover(now))
          /\ Commit(w, ViewAlerts(w))
          /\ Set(w, NextTask([local EXCEPT !.txn = EmptyTxn,
                                           !.deferred = @ \cup {<<task.keyword_id, task.source>>},
                                           !.stats = Bump(@, "tasks_deferred_budget", 1)]))
          /\ UNCHANGED search_log
     ELSE /\ Set(w, [local EXCEPT !.pc = "search", !.task_now = now,
                                  !.since = since_for(task, now, settings.overlap_minutes),
                                  !.searched = @ \cup {<<task.keyword_id, task.source>>}])
          /\ search_log' =
               IF task.last_checked_at = Null THEN search_log
               ELSE [search_log EXCEPT ![<<task.keyword_id, task.source>>] =
                       [since |-> since_for(task, now, settings.overlap_minutes),
                        outcome |-> "searching"]]
          /\ UNCHANGED << keyword_source_state, mentions, mention_matches, alert_deliveries >>
  /\ UNCHANGED << now, lock_holder, worker_runs, feed, retry_probe, env_probe, adapter_probe,
                  delivery_log >>

\* A search charged to the budget by the number of its results.
search_returns_per_result(w) ==
  LET local == worker[w]
      task == Head(local.tasks)
      found == feed[<<task.keyword_id, task.source>>]
  IN
  /\ local.pc = "search"
  /\ Set(w, [local EXCEPT !.source_requests_today[task.source] = @ + Len(found),
                          !.source_requests_run[task.source] = @ + Len(found),
                          !.stats = Bump(@, "source_mentions_fetched", Len(found)),
                          !.mentions = found,
                          !.pc = "mentions"])
  /\ UNCHANGED << now, lock_holder, store, feed, retry_probe, env_probe, adapter_probe, search_log, delivery_log >>

\* pipeline.py 146-149: search returned.
search_returns(w) ==
  LET local == worker[w]
      task == Head(local.tasks)
      found == feed[<<task.keyword_id, task.source>>]
  IN
  /\ local.pc = "search"
  /\ Set(w, [local EXCEPT !.source_requests_today[task.source] = @ + 1,
                          !.source_requests_run[task.source] = @ + 1,
                          !.stats = Bump(@, "source_mentions_fetched", Len(found)),
                          !.mentions = found,
                          !.pc = "mentions"])
  /\ UNCHANGED << now, lock_holder, store, feed, retry_probe, env_probe, adapter_probe, search_log, delivery_log >>

\* A handler that leaves the loop over the tasks after recording the error.
task_error_breaking(w, local, error) ==
  LET task == Head(local.tasks)
  IN
  /\ keyword_source_state' =
       mark_source_task_error(keyword_source_state, task.keyword_id, task.source,
                              error, _poll_interval_for_source(task.source))
  /\ UNCHANGED << mentions, mention_matches, alert_deliveries >>
  /\ search_log' = [search_log EXCEPT ![<<task.keyword_id, task.source>>].outcome =
                                        IF @ = "searching" THEN "failed" ELSE @]
  /\ Set(w, [local EXCEPT !.txn = EmptyTxn, !.tasks = <<>>, !.mentions = <<>>,
                          !.task_now = Null, !.since = Null, !.pc = "alerts",
                          !.stats = Bump(@, "task_errors", 1)])

\* A handler over statements that had each committed: the rows the task wrote
\* before the error stay in the store.
task_error_keeping_rows(w, local, error) ==
  LET task == Head(local.tasks)
  IN
  /\ keyword_source_state' =
       mark_source_task_error(keyword_source_state, task.keyword_id, task.source,
                              error, _poll_interval_for_source(task.source))
  /\ mentions' = mentions \o local.txn.mentions
  /\ mention_matches' = mention_matches \o local.txn.mention_matches
  /\ alert_deliveries' = alert_deliveries \o local.txn.alert_deliveries
  /\ search_log' = [search_log EXCEPT ![<<task.keyword_id, task.source>>].outcome =
                                        IF @ = "searching" THEN "failed" ELSE @]
  /\ Set(w, NextTask([local EXCEPT !.txn = EmptyTxn,
                                   !.stats = Bump(@, "task_errors", 1)]))

\* pipeline.py 187-196: the handler of an error raised inside a task.
task_error(w, local, error) ==
  LET task == Head(local.tasks)
  IN
  /\ keyword_source_state' =
       mark_source_task_error(keyword_source_state, task.keyword_id, task.source,
                              error, _poll_interval_for_source(task.source))
  /\ UNCHANGED << mentions, mention_matches, alert_deliveries >>
  /\ search_log' = [search_log EXCEPT ![<<task.keyword_id, task.source>>].outcome =
                                        IF @ = "searching" THEN "failed" ELSE @]
  /\ Set(w, NextTask([local EXCEPT !.txn = EmptyTxn,
                                   !.stats = Bump(@, "task_errors", 1)]))

\* pipeline.py 146, 187-196: search raised.
search_raises(w) ==
  /\ worker[w].pc = "search"
  /\ task_error(w, worker[w], SearchError)
  /\ UNCHANGED << now, lock_holder, worker_runs, feed, retry_probe, env_probe, adapter_probe,
                  delivery_log >>

\* The chain without the `continue` of line 165: the alert is enqueued for a
\* duplicate match too.
mention_chain_no_continue(w, local, upto) ==
  LET task == Head(local.tasks)
      up == upsert_mention(mentions, local.txn.mentions, task.source, Head(local.mentions))
      im == insert_mention_match(mention_matches, local.txn.mention_matches,
                                 task.user_id, task.keyword_id, up.id)
      ea == enqueue_alert(alert_deliveries, local.txn.alert_deliveries,
                          task.user_id, task.keyword_id, up.id)
      l1 == [local EXCEPT !.txn.mentions = up.pending,
                          !.stats = Bump(@, "mentions_upserted", 1)]
      l2 == IF im.inserted
            THEN [l1 EXCEPT !.txn.mention_matches = im.pending,
                            !.stats = Bump(@, "matches_created", 1)]
            ELSE [l1 EXCEPT !.stats = Bump(@, "matches_deduped", 1)]
      l3 == [l2 EXCEPT !.txn.alert_deliveries = ea.pending,
                       !.enqueue_calls = @ + 1,
                       !.stats = Bump(@, IF ea.inserted THEN "alerts_enqueued"
                                         ELSE "alerts_deduped", 1)]
  IN  CASE upto = "upsert" -> local
        [] upto = "match" -> l1
        [] upto = "alert" -> [l2 EXCEPT !.enqueue_calls = @ + 1]
        [] OTHER -> [l3 EXCEPT !.mentions = Tail(@)]

\* pipeline.py 151-177: one mention of the response, up to the statement `upto`
\* ("upsert", "match", "alert" or "all"): the locals afterwards.
mention_chain(w, local, upto) ==
  LET task == Head(local.tasks)
      up == upsert_mention(mentions, local.txn.mentions, task.source, Head(local.mentions))
      im == insert_mention_match(mention_matches, local.txn.mention_matches,
                                 task.user_id, task.keyword_id, up.id)
      ea == enqueue_alert(alert_deliveries, local.txn.alert_deliveries,
                          task.user_id, task.keyword_id, up.id)
      l1 == [local EXCEPT !.txn.mentions = up.pending,
                          !.stats = Bump(@, "mentions_upserted", 1)]
      l2 == IF im.inserted
            THEN [l1 EXCEPT !.txn.mention_matches = im.pending,
                            !.stats = Bump(@, "matches_created", 1)]
            ELSE [l1 EXCEPT !.stats = Bump(@, "matches_deduped", 1)]
      l3 == IF ~im.inserted THEN l2
            ELSE [l2 EXCEPT !.txn.alert_deliveries = ea.pending,
                            !.enqueue_calls = @ + 1,
                            !.stats = Bump(@, IF ea.inserted THEN "alerts_enqueued"
                                              ELSE "alerts_deduped", 1)]
  IN  CASE upto = "upsert" -> local
        [] upto = "match" -> l1
        [] upto = "alert" -> [l2 EXCEPT !.enqueue_calls = @ + 1]
        [] OTHER -> [l3 EXCEPT !.mentions = Tail(@)]

\* Whether the chain of the next mention reaches the statement `point`.
chain_reaches(w, point) ==
  LET local == worker[w]
      task == Head(local.tasks)
      up == upsert_mention(mentions, local.txn.mentions, task.source, Head(local.mentions))
  IN  point = "alert" =>
        insert_mention_match(mention_matches, local.txn.mention_matches,
                             task.user_id, task.keyword_id, up.id).inserted

\* pipeline.py 151-177: one mention is upserted, matched and its alert enqueued.
mention_ok(w) ==
  /\ worker[w].pc = "mentions"
  /\ worker[w].mentions # <<>>
  /\ Set(w, mention_chain(w, worker[w], "all"))
  /\ UNCHANGED << now, lock_holder, store, feed, retry_probe, env_probe, adapter_probe, search_log, delivery_log >>

\* pipeline.py 151-177, 187-196: a statement of the chain raises.
mention_raises(w, point) ==
  /\ worker[w].pc = "mentions"
  /\ worker[w].mentions # <<>>
  /\ chain_reaches(w, point)
  /\ task_error(w, mention_chain(w, worker[w], point), ChainError)
  /\ UNCHANGED << now, lock_holder, worker_runs, feed, retry_probe, env_probe, adapter_probe,
                  delivery_log >>

\* pipeline.py 179-186
task_succeeds(w) ==
  LET local == worker[w]
      task == Head(local.tasks)
  IN
  /\ local.pc = "mentions"
  /\ local.mentions = <<>>
  /\ keyword_source_state' =
       mark_source_task_success(keyword_source_state, task.keyword_id, task.source,
                                local.task_now, _poll_interval_for_source(task.source))
  /\ Commit(w, ViewAlerts(w))
  /\ Set(w, NextTask([local EXCEPT !.txn = EmptyTxn,
                                   !.stats = Bump(@, "tasks_succeeded", 1)]))
  /\ search_log' = [search_log EXCEPT ![<<task.keyword_id, task.source>>] =
                                        [since |-> Null, outcome |-> "none"]]
  /\ UNCHANGED << now, lock_holder, worker_runs, feed, retry_probe, env_probe, adapter_probe,
                  delivery_log >>

\* ------------------------------------------------------------ _process_alerts
\* pipeline.py 199-204
process_alerts_fetch(w) ==
  /\ worker[w].pc = "alerts"
  /\ \E q \in fetch_pending_alerts(ViewAlerts(w), settings.alert_batch_size,
                                   settings.max_alert_retries) :
       Set(w, [worker[w] EXCEPT !.alerts = q,
                                !.stats = Bump(@, "alerts_attempted", Len(q)),
                                !.pc = IF q = <<>> THEN "finish" ELSE "alert"])
  /\ UNCHANGED << now, lock_holder, store, feed, retry_probe, env_probe, adapter_probe, search_log, delivery_log >>

\* pipeline.py 208-218, 226-236: the retry of a failed attempt is scheduled.
alert_retry(w, local, error) ==
  LET alert == Head(local.alerts)
      next_retry == alert.retry_count + 1
  IN
  /\ Commit(w, mark_alert_retry(ViewAlerts(w), alert.alert_id, next_retry,
                                settings.max_alert_retries,
                                now + _retry_delay_seconds(next_retry), error))
  /\ Set(w, NextAlert([local EXCEPT !.txn = EmptyTxn,
                                    !.stats = Bump(@, "alerts_failed", 1)]))

\* pipeline.py 206-222: the head of the loop, up to the call of send_slack_alert.
alert_begin(w) ==
  LET local == worker[w]
      alert == Head(local.alerts)
      log == LogOf(alert.alert_id)
  IN
  /\ local.pc = "alert"
  /\ IF webhook_missing_or_invalid(alert.webhook_url)
     THEN /\ alert_retry(w, local, WebhookError)
          /\ delivery_log' = Logged(alert.alert_id, [log EXCEPT !.attempts = @ + 1])
     ELSE /\ Set(w, [local EXCEPT !.pc = "send"])
          /\ delivery_log' = Logged(alert.alert_id,
                                    [log EXCEPT !.attempts = @ + 1, !.sends = @ + 1])
          /\ UNCHANGED << mentions, mention_matches, alert_deliveries >>
  /\ UNCHANGED << now, lock_holder, worker_runs,
                  keyword_source_state, feed, retry_probe, env_probe, adapter_probe, search_log >>

\* pipeline.py 222-224: the webhook answered 2xx.
send_returns(w) ==
  LET local == worker[w]
      alert == Head(local.alerts)
  IN
  /\ local.pc = "send"
  /\ Commit(w, mark_alert_sent(ViewAlerts(w), alert.alert_id))
  /\ Set(w, NextAlert([local EXCEPT !.txn = EmptyTxn,
                                    !.stats = Bump(@, "alerts_sent", 1)]))
  /\ delivery_log' = Logged(alert.alert_id,
                            [LogOf(alert.alert_id) EXCEPT !.delivered = @ + 1])
  /\ UNCHANGED << now, lock_holder, worker_runs,
                  keyword_source_state, feed, retry_probe, env_probe, adapter_probe, search_log >>

\* A loop without the handler: the exception of the send reaches run_once.
send_raises_unhandled(w) ==
  /\ worker[w].pc = "send"
  /\ worker_runs' = finish_worker_run(worker_runs, worker[w].run_id, "failed",
                                      worker[w].stats, worker[w].source_requests_run,
                                      worker[w].source_requests_today, SendError)
  /\ Set(w, Idle(1))
  /\ lock_holder' = "None"
  /\ UNCHANGED << now, keyword_source_state, mentions, mention_matches, alert_deliveries,
                  feed, retry_probe, env_probe, adapter_probe, search_log, delivery_log >>

\* pipeline.py 222, 225-236: send_slack_alert raised.
send_raises(w) ==
  /\ worker[w].pc = "send"
  /\ alert_retry(w, worker[w], SendError)
  /\ UNCHANGED << now, lock_holder, worker_runs,
                  keyword_source_state, feed, retry_probe, env_probe, adapter_probe, search_log, delivery_log >>

\* pipeline.py 50-57, db.py 22-25: the run is finished, run_once returns 0 and the
\* connection is closed.
run_once_success(w) ==
  LET local == worker[w]
  IN
  /\ local.pc = "finish"
  /\ worker_runs' = finish_worker_run(worker_runs, local.run_id, "success", local.stats,
                                      local.source_requests_run,
                                      local.source_requests_today, NoError)
  /\ Commit(w, ViewAlerts(w))
  /\ lock_holder' = connection_close(w)
  /\ Set(w, Idle(0))
  /\ UNCHANGED << now, keyword_source_state, feed, retry_probe, env_probe, adapter_probe, search_log, delivery_log >>

\* ------------------------------------------------------------ the clock
\* Time passes between invocations and while a request is in flight.
Tick(d) ==
  /\ now + d <= StartTime + MaxTicks * SECONDS_PER_MINUTE
  /\ \A w \in Workers : worker[w].pc \in {"idle", "search"}
  /\ now' = now + d
  /\ UNCHANGED << lock_holder, store, feed, retry_probe, env_probe, adapter_probe, search_log, worker, delivery_log >>

\* The statements of the chain that raise in a behaviour.
ChainPoints == {"match", "alert"}

Next ==
  \/ \E w \in Workers : run_once_lock(w)
  \/ \E w \in Workers : run_once_create_run(w)
  \/ \E w \in Workers : run_once_snapshot(w)
  \/ \E w \in Workers : process_source_tasks_fetch(w)
  \/ \E w \in Workers : task_begin(w)
  \/ \E w \in Workers : search_returns(w)
  \/ \E w \in Workers : search_raises(w)
  \/ \E w \in Workers : mention_ok(w)
  \/ \E w \in Workers, point \in ChainPoints : mention_raises(w, point)
  \/ \E w \in Workers : task_succeeds(w)
  \/ \E w \in Workers : process_alerts_fetch(w)
  \/ \E w \in Workers : alert_begin(w)
  \/ \E w \in Workers : send_returns(w)
  \/ \E w \in Workers : send_raises(w)
  \/ \E w \in Workers : run_once_success(w)
  \/ \E d \in TickSeconds : Tick(d)

Spec == Init /\ [][Next]_vars

\* ------------------------------------------------------------ failing statements
\* A handler that reports the failed run as a success to the caller.
run_once_failed_returning_0(w, local, requests, today_after, error) ==
  /\ \/ /\ worker_runs' = finish_worker_run(worker_runs, local.run_id, "failed",
                                            local.stats, requests, today_after, error)
        /\ Set(w, Idle(0))
     \/ /\ worker_runs' = worker_runs
        /\ Set(w, Idle(Raised))
  /\ lock_holder' = connection_close(w)
  /\ UNCHANGED << now, keyword_source_state, mentions, mention_matches,
                  alert_deliveries, feed, retry_probe, env_probe, adapter_probe, search_log >>

\* pipeline.py 58-71, db.py 22-25: the handler of an exception that reaches
\* run_once. The open transaction is rolled back and the run row is finished as
\* failed with the stats so far, then run_once returns 1; or finish_worker_run
\* raises too and the exception leaves run_once. The connection is closed either way.
run_once_failed(w, local, requests, today_after, error) ==
  /\ \/ /\ worker_runs' = finish_worker_run(worker_runs, local.run_id, "failed",
                                            local.stats, requests, today_after, error)
        /\ Set(w, Idle(1))
     \/ /\ worker_runs' = worker_runs
        /\ Set(w, Idle(Raised))
  /\ lock_holder' = connection_close(w)
  /\ UNCHANGED << now, keyword_source_state, mentions, mention_matches,
                  alert_deliveries, feed, retry_probe, env_probe, adapter_probe, search_log >>

\* pipeline.py 29, db.py 22-25: create_worker_run raises before the try block; no
\* row is committed and the exception leaves run_once through the connection's
\* finally.
create_run_raises(w) ==
  /\ worker[w].pc = "locked"
  /\ lock_holder' = connection_close(w)
  /\ Set(w, Idle(Raised))
  /\ UNCHANGED << now, store, feed, retry_probe, env_probe, adapter_probe, search_log, delivery_log >>

\* pipeline.py 33-40: the snapshot of the counters (or the building of the
\* adapters) raises.
snapshot_raises(w) ==
  /\ worker[w].pc = "started"
  /\ run_once_failed(w, worker[w], AbsentCounts, AbsentCounts, StoreError)
  /\ UNCHANGED delivery_log

\* pipeline.py 108-112: fetch_due_source_tasks raises.
fetch_due_raises(w) ==
  /\ worker[w].pc = "tasks"
  /\ run_once_failed(w, worker[w], AbsentCounts, AbsentCounts, StoreError)
  /\ UNCHANGED delivery_log

\* pipeline.py 117-138: mark_source_task_error raises for a task that is not
\* searched; the call is outside the try block of the task.
defer_mark_raises(w) ==
  LET local == worker[w]
      task == Head(local.tasks)
  IN
  /\ local.pc = "task"
  /\ \/ task.source \notin _build_sources
     \/ _source_daily_limit_reached(task.source, local.source_requests_today)
  /\ run_once_failed(w, local, AbsentCounts, AbsentCounts, StoreError)
  /\ UNCHANGED delivery_log

\* pipeline.py 179-196: mark_source_task_success raises; the handler of the task
\* rolls back and records the error.
mark_success_raises(w) ==
  /\ worker[w].pc = "mentions"
  /\ worker[w].mentions = <<>>
  /\ task_error(w, worker[w], StoreError)
  /\ UNCHANGED << now, lock_holder, worker_runs, feed, retry_probe, env_probe, adapter_probe,
                  delivery_log >>

\* pipeline.py 187-195: inside the handler of a task (the search, the chain or
\* mark_source_task_success raised), mark_source_task_error raises.
task_error_mark_raises(w) ==
  LET local == worker[w]
  IN
  /\ local.pc \in {"search", "mentions"}
  /\ \E upto \in {"upsert"} \cup ChainPoints :
       /\ local.pc = "mentions" /\ local.mentions # <<>>
            => upto \in ChainPoints /\ chain_reaches(w, upto)
       /\ (local.pc = "search" \/ local.mentions = <<>>) => upto = "upsert"
       /\ run_once_failed(w,
                          IF local.pc = "mentions" /\ local.mentions # <<>>
                          THEN mention_chain(w, local, upto) ELSE local,
                          AbsentCounts, AbsentCounts, StoreError)
  /\ UNCHANGED delivery_log

\* pipeline.py 199-203: fetch_pending_alerts raises.
fetch_pending_raises(w) ==
  /\ worker[w].pc = "alerts"
  /\ run_once_failed(w, worker[w], AbsentCounts, AbsentCounts, StoreError)
  /\ UNCHANGED delivery_log

\* pipeline.py 207-236: mark_alert_retry raises, for an invalid webhook or inside
\* the handler of a failed send.
alert_retry_mark_raises(w) ==
  LET local == worker[w]
      alert == Head(local.alerts)
  IN
  /\ \/ local.pc = "alert" /\ webhook_missing_or_invalid(alert.webhook_url)
     \/ local.pc = "send"
  /\ run_once_failed(w, local, AbsentCounts, AbsentCounts, StoreError)
  /\ delivery_log' =
       IF local.pc = "alert"
       THEN Logged(alert.alert_id, [LogOf(alert.alert_id) EXCEPT !.attempts = @ + 1])
       ELSE delivery_log

\* pipeline.py 50-53: finish_worker_run raises for the successful run, inside the
\* try block.
finish_success_raises(w) ==
  /\ worker[w].pc = "finish"
  /\ run_once_failed(w, worker[w], worker[w].source_requests_run,
                     worker[w].source_requests_today, StoreError)
  /\ UNCHANGED delivery_log

\* pipeline.py 222-236, db.py 333-347: the webhook answered 2xx and then
\* mark_alert_sent raises, inside the try block of the send. The handler calls
\* mark_alert_retry on the same connection without a rollback: if the failed
\* statement left the transaction aborted, that call raises as well and the
\* exception reaches run_once; if the transaction had ended (the commit failed),
\* the retry is recorded and the loop goes on.
mark_sent_raises(w) ==
  LET local == worker[w]
      alert == Head(local.alerts)
  IN
  /\ local.pc = "send"
  /\ delivery_log' = Logged(alert.alert_id,
                            [LogOf(alert.alert_id) EXCEPT !.delivered = @ + 1])
  /\ \/ run_once_failed(w, local, AbsentCounts, AbsentCounts, StoreError)
     \/ /\ alert_retry(w, local, StoreError)
        /\ UNCHANGED << now, lock_holder, worker_runs, keyword_source_state, feed,
                        retry_probe, env_probe, adapter_probe, search_log >>

NextSendFaults ==
  \/ Next
  \/ \E w \in Workers : mark_sent_raises(w)

\* The worker with a mark_alert_sent that may fail.
SpecSendFaults == Init /\ [][NextSendFaults]_vars

NextFaults ==
  \/ Next
  \/ \E w \in Workers : create_run_raises(w)
  \/ \E w \in Workers : snapshot_raises(w)
  \/ \E w \in Workers : fetch_due_raises(w)
  \/ \E w \in Workers : defer_mark_raises(w)
  \/ \E w \in Workers : mark_success_raises(w)
  \/ \E w \in Workers : task_error_mark_raises(w)
  \/ \E w \in Workers : fetch_pending_raises(w)
  \/ \E w \in Workers : alert_retry_mark_raises(w)
  \/ \E w \in Workers : finish_success_raises(w)

\* The worker with statements of the store that may fail.
SpecFaults == Init /\ [][NextFaults]_vars

\* ------------------------------------------------------------ _retry_delay_seconds alone
RetryInputs ==
  { [retry_count |-> n, base |-> b, max |-> m, delay |-> Null] :
      n \in 1..MaxRetryCount, b \in RetryBases, m \in RetryMaxes }

InitRetry ==
  /\ now = StartTime
  /\ lock_holder = "None"
  /\ worker_runs = <<>>
  /\ keyword_source_state = [p \in Pairs |-> NoRow]
  /\ mentions = <<>>
  /\ mention_matches = <<>>
  /\ alert_deliveries = <<>>
  /\ feed = [p \in Pairs |-> <<>>]
  /\ worker = [w \in Workers |-> Idle(Null)]
  /\ delivery_log = <<>>
  /\ retry_probe \in RetryInputs
  /\ env_probe = NoEnvProbe
  /\ adapter_probe = NoAdapterProbe
  /\ search_log = NoSearches

\* pipeline.py 238-241 with the probe's settings.
retry_delay_call ==
  /\ retry_probe.delay = Null
  /\ retry_probe' = [retry_probe EXCEPT !.delay =
                       _retry_delay(retry_probe.retry_count, retry_probe.base,
                                    retry_probe.max)]
  /\ UNCHANGED << now, lock_holder, store, feed, worker, delivery_log, env_probe,
                  adapter_probe, search_log >>

retry_delay_next ==
  /\ retry_probe.delay # Null
  /\ retry_probe' \in RetryInputs
  /\ UNCHANGED << now, lock_holder, store, feed, worker, delivery_log, env_probe,
                  adapter_probe, search_log >>

NextRetry == retry_delay_call \/ retry_delay_next

SpecRetry == InitRetry /\ [][NextRetry]_vars

\* A store in which one task was polled ten minutes before the start and is due.
InitPolled ==
  /\ now = StartTime
  /\ lock_holder = "None"
  /\ worker_runs = <<>>
  /\ keyword_source_state =
       [p \in Pairs |->
          IF p = <<"k1", "github_discussions">>
          THEN [exists |-> TRUE, last_checked_at |-> StartTime - 10 * SECONDS_PER_MINUTE,
                next_poll_at |-> StartTime - 8 * SECONDS_PER_MINUTE,
                last_error |-> NoError]
          ELSE NoRow]
  /\ mentions = <<>>
  /\ mention_matches = <<>>
  /\ alert_deliveries = <<>>
  /\ feed \in Feeds
  /\ worker = [w \in Workers |-> Idle(Null)]
  /\ delivery_log = <<>>
  /\ retry_probe = NoProbe
  /\ env_probe = NoEnvProbe
  /\ adapter_probe = NoAdapterProbe
  /\ search_log = NoSearches

SpecPolled == InitPolled /\ [][Next]_vars

\* A store as InitPolled's, and adapters that return two results with different
\* ids on every search.
OrderedResponse == <<"x2", "x1">>

InitOrdered ==
  /\ now = StartTime
  /\ lock_holder = "None"
  /\ worker_runs = <<>>
  /\ keyword_source_state =
       [p \in Pairs |->
          IF p = <<"k1", "github_discussions">>
          THEN [exists |-> TRUE, last_checked_at |-> StartTime - 10 * SECONDS_PER_MINUTE,
                next_poll_at |-> StartTime - 8 * SECONDS_PER_MINUTE,
                last_error |-> NoError]
          ELSE NoRow]
  /\ mentions = <<>>
  /\ mention_matches = <<>>
  /\ alert_deliveries = <<>>
  /\ feed = [p \in Pairs |-> OrderedResponse]
  /\ worker = [w \in Workers |-> Idle(Null)]
  /\ delivery_log = <<>>
  /\ retry_probe = NoProbe
  /\ env_probe = NoEnvProbe
  /\ adapter_probe = NoAdapterProbe
  /\ search_log = NoSearches

SpecOrdered == InitOrdered /\ [][Next]_vars

\* ------------------------------------------------------------ load_settings
\* An environment text is a sequence of characters; os.getenv of a variable that
\* is not set returns None.
None == << "None" >>

Whitespace == {" ", "\t"}

Digits == << "0", "1", "2", "3", "4", "5", "6", "7", "8", "9" >>

\* str.lower, character by character.
LowerOf(c) ==
  CASE c = "A" -> "a" [] c = "E" -> "e" [] c = "F" -> "f" [] c = "L" -> "l"
    [] c = "N" -> "n" [] c = "O" -> "o" [] c = "R" -> "r" [] c = "S" -> "s"
    [] c = "T" -> "t" [] c = "U" -> "u" [] c = "Y" -> "y" [] OTHER -> c

lower(value) == [i \in DOMAIN value |-> LowerOf(value[i])]

RECURSIVE lstrip(_)
lstrip(value) ==
  IF value # <<>> /\ Head(value) \in Whitespace THEN lstrip(Tail(value)) ELSE value

RECURSIVE rstrip(_)
rstrip(value) ==
  IF value # <<>> /\ value[Len(value)] \in Whitespace
  THEN rstrip(SubSeq(value, 1, Len(value) - 1)) ELSE value

\* str.strip
strip(value) == rstrip(lstrip(value))

\* The digits of an integer literal, its sign taken off.
Unsigned(text) ==
  IF text # <<>> /\ Head(text) \in {"+", "-"} THEN Tail(text) ELSE text

\* int(text) raises ValueError unless text is an optional sign and digits.
int_raises(text) ==
  \/ Unsigned(text) = <<>>
  \/ \E i \in DOMAIN Unsigned(text) :
       Unsigned(text)[i] \notin {Digits[d] : d \in DOMAIN Digits}

RECURSIVE Magnitude(_)
Magnitude(digits) ==
  IF digits = <<>> THEN 0
  ELSE 10 * Magnitude(SubSeq(digits, 1, Len(digits) - 1))
         + (CHOOSE d \in 0..9 : Digits[d + 1] = digits[Len(digits)])

int(text) ==
  IF Head(text) = "-" THEN 0 - Magnitude(Unsigned(text)) ELSE Magnitude(Unsigned(text))

\* A boolean variable that reads as the setting's default whenever it is not one
\* of the true words.
_to_bool_defaulting(value, default) ==
  IF value = None THEN default
  ELSE IF lower(value) \in { <<"1">>, <<"t", "r", "u", "e">>, <<"y", "e", "s">>,
                             <<"o", "n">> }
       THEN TRUE ELSE default

_to_bool(value, default) ==
  IF value = None THEN default
  ELSE lower(value) \in { <<"1">>, <<"t", "r", "u", "e">>, <<"y", "e", "s">>,
                          <<"o", "n">> }

_to_optional_int_raises(value) ==
  /\ value # None
  /\ strip(value) # <<>>
  /\ int_raises(strip(value))

\* A limit read without the check that it is at least 1.
_to_optional_int_any(value) ==
  IF value = None THEN Null
  ELSE LET stripped == strip(value)
       IN  IF stripped = <<>> THEN Null ELSE int(stripped)

\* None is Null here; the call raises when _to_optional_int_raises(value).
_to_optional_int(value) ==
  IF value = None THEN Null
  ELSE LET stripped == strip(value)
       IN  IF stripped = <<>> THEN Null
           ELSE LET parsed == int(stripped)
                IN  IF parsed < 1 THEN Null ELSE parsed

\* os.getenv(name)
getenv(env, name) == IF name \in DOMAIN env THEN env[name] ELSE None

\* The registry entry of a source key.
DefinitionOf(key) ==
  SOURCE_DEFINITIONS[CHOOSE i \in DOMAIN SOURCE_DEFINITIONS :
                       SOURCE_DEFINITIONS[i].key = key]

\* f"SOURCE_{source.env_slug}_{suffix}"
SourceVar(key, suffix) == << "SOURCE", key, suffix >>

\* load_settings raises ValueError when a configured daily limit is no integer.
\* (DATABASE_URL is set and the integer settings are left at their defaults.)
load_settings_raises(env) ==
  \E key \in source_keys :
    _to_optional_int_raises(getenv(env, SourceVar(key, "DAILY_REQUEST_LIMIT")))

\* The fields of Settings that load_settings derives from FREE_TIER_MODE,
\* SOURCE_<SLUG>_ENABLED and SOURCE_<SLUG>_DAILY_REQUEST_LIMIT.
load_settings(env) ==
  LET free_tier_mode == _to_bool(getenv(env, << "FREE_TIER_MODE" >>), TRUE)
  IN  [ free_tier_mode |-> free_tier_mode,
        source_enabled |->
          [key \in source_keys |->
             _to_bool(getenv(env, SourceVar(key, "ENABLED")),
                      DefinitionOf(key).default_enabled)],
        source_daily_request_limit |->
          [key \in source_keys |->
             LET daily_limit ==
                   _to_optional_int(getenv(env, SourceVar(key, "DAILY_REQUEST_LIMIT")))
             IN  IF free_tier_mode /\ daily_limit = Null
                 THEN DefinitionOf(key).free_tier_daily_limit
                 ELSE daily_limit] ]

\* Texts an operator may put in a boolean variable.
BoolTexts ==
  { <<"1">>, <<"t", "r", "u", "e">>, <<"T", "R", "U", "E">>, <<"T", "r", "u", "e">>,
    <<"y", "e", "s">>, <<"Y", "E", "S">>, <<"o", "n">>, <<"O", "n">>,
    <<"0">>, <<"f", "a", "l", "s", "e">>, <<"F", "a", "l", "s", "e">>, <<"n", "o">>,
    <<"o", "f", "f">>, <<>>, <<" ", "t", "r", "u", "e">>, <<"2">> }

\* Texts an operator may put in a daily request limit.
LimitTexts ==
  { <<"5">>, <<" ", "7", " ">>, <<"1">>, <<"1", "2">>, <<"+", "3">>, <<"0">>,
    <<"-", "1">>, <<>>, <<" ">>, <<"a", "b", "c">>, <<"1", ".", "5">> }

\* The environments that set FREE_TIER_MODE and the two variables of one source,
\* each to a text or not at all.
Environments ==
  { (<< "FREE_TIER_MODE" >> :> free)
      @@ (SourceVar(key, "ENABLED") :> enabled)
      @@ (SourceVar(key, "DAILY_REQUEST_LIMIT") :> limit) :
      free \in BoolTexts \cup {None}, key \in source_keys,
      enabled \in {None, <<"1">>, <<"Y", "E", "S">>, <<"n", "o">>, <<>>},
      limit \in LimitTexts \cup {None} }

EnvProbes == { [env |-> e, outcome |-> "none", loaded |-> <<>>] : e \in Environments }

InitConfig ==
  /\ now = StartTime
  /\ lock_holder = "None"
  /\ worker_runs = <<>>
  /\ keyword_source_state = [p \in Pairs |-> NoRow]
  /\ mentions = <<>>
  /\ mention_matches = <<>>
  /\ alert_deliveries = <<>>
  /\ feed = [p \in Pairs |-> <<>>]
  /\ worker = [w \in Workers |-> Idle(Null)]
  /\ delivery_log = <<>>
  /\ retry_probe = NoProbe
  /\ env_probe \in EnvProbes
  /\ adapter_probe = NoAdapterProbe
  /\ search_log = NoSearches

\* config.py 66-126: the process starts and loads its settings.
load_settings_call ==
  /\ env_probe.outcome = "none"
  /\ env_probe' =
       IF load_settings_raises(env_probe.env)
       THEN [env_probe EXCEPT !.outcome = "ValueError"]
       ELSE [env_probe EXCEPT !.outcome = "loaded",
                              !.loaded = load_settings(env_probe.env)]
  /\ UNCHANGED << now, lock_holder, store, feed, worker, delivery_log, retry_probe,
                  adapter_probe, search_log >>

\* The operator sets FREE_TIER_MODE anew before the next start.
setenv ==
  /\ env_probe.outcome # "none"
  /\ \E free \in BoolTexts \cup {None} :
       env_probe' = [env |-> [env_probe.env EXCEPT ![<< "FREE_TIER_MODE" >>] = free],
                     outcome |-> "none", loaded |-> <<>>]
  /\ UNCHANGED << now, lock_holder, store, feed, worker, delivery_log, retry_probe,
                  adapter_probe, search_log >>

NextConfig == load_settings_call \/ setenv

SpecConfig == InitConfig /\ [][NextConfig]_vars

\* ------------------------------------------------------------ body_excerpt
\* A text is a sequence of characters. The operators below work by position: a
\* position is given the character it contributes or is marked as dropped.
Dropped == "dropped"

NotDropped(c) == c # Dropped

Kept(marked) == SelectSeq(marked, NotDropped)

\* " ".join(text.split()): runs of whitespace become one space, none is left
\* at either end.
split_join(text) ==
  LET n == Len(text)
      space(i) == text[i] \in Whitespace
  IN  Kept([i \in 1..n |->
              IF ~space(i) THEN text[i]
              ELSE IF i > 1 /\ ~space(i - 1) /\ (\E j \in (i + 1)..n : ~space(j))
                   THEN " " ELSE Dropped])

\* Position i lies in a match of _TAG_RE = <[^>]+> : some "<" at s <= i is
\* followed, after at least one other character, by the first ">" at j >= i.
InTag(text, i) ==
  \E s \in 1..i :
    /\ text[s] = "<"
    /\ \E j \in i..Len(text) :
         /\ text[j] = ">"
         /\ j > s + 1
         /\ \A k \in s..(j - 1) : text[k] # ">"

\* _TAG_RE.sub(" ", value): each match, taken from the left, becomes one space.
TAG_RE_sub(value) ==
  Kept([i \in 1..Len(value) |->
          IF ~InTag(value, i) THEN value[i]
          ELSE IF value[i] = "<" /\ (i = 1 \/ value[i - 1] = ">" \/ ~InTag(value, i - 1))
               THEN " " ELSE Dropped])

\* The character references html.unescape replaces and what they stand for
\* (those the texts below use).
Entities ==
  { [ref |-> <<"&", "#", "3", "2", ";">>, char |-> " "],
    [ref |-> <<"&", "l", "t", ";">>, char |-> "<"],
    [ref |-> <<"&", "g", "t", ";">>, char |-> ">"],
    [ref |-> <<"&", "a", "m", "p", ";">>, char |-> "&"] }

EntityAt(text, i) ==
  { e \in Entities :
      /\ i + Len(e.ref) - 1 <= Len(text)
      /\ SubSeq(text, i, i + Len(e.ref) - 1) = e.ref }

\* html.unescape(text), in one pass.
unescape(text) ==
  Kept([i \in 1..Len(text) |->
          IF text[i] = "&" /\ EntityAt(text, i) # {}
          THEN (CHOOSE e \in EntityAt(text, i) : TRUE).char
          ELSE IF \E s \in Max(1, i - 4)..(i - 1) :
                    \E e \in EntityAt(text, s) : i < s + Len(e.ref)
               THEN Dropped ELSE text[i]])

\* hackernews.py 15-19
_strip_html(value) ==
  IF value = <<>> THEN <<>> ELSE unescape(split_join(TAG_RE_sub(value)))

\* text[:BODY_EXCERPT_CHARS]
BODY_EXCERPT_CHARS == 500

Excerpt(text) ==
  IF Len(text) <= BODY_EXCERPT_CHARS THEN text ELSE SubSeq(text, 1, BODY_EXCERPT_CHARS)

\* The sources that have an adapter class.
Adapters == {"hackernews", "devto", "github_discussions", "reddit"}

\* The body_excerpt an adapter gives a mention whose text field (comment_text or
\* story_text, description, bodyText, selftext or body) holds text.
body_excerpt(source, text) ==
  IF source = "hackernews" THEN Excerpt(_strip_html(text))
  ELSE Excerpt(split_join(text))

\* A word that alone nearly fills an excerpt.
LongWord == [i \in 1..(BODY_EXCERPT_CHARS - 1) |-> "a"]

TextPieces ==
  { <<"a">>, <<" ">>, <<"\t">>, <<"<", "b", ">">>, <<"<">>, <<">">>,
    <<"&", "#", "3", "2", ";">>, <<"&", "l", "t", ";">> }

\* The text fields of a response: up to three pieces, or the long word and two.
Texts ==
  {<<>>} \cup TextPieces
    \cup { p \o q : p \in TextPieces, q \in TextPieces }
    \cup { p \o q \o r : p \in TextPieces, q \in TextPieces, r \in TextPieces }
    \cup { LongWord \o p \o q : p \in TextPieces, q \in TextPieces }

\* ------------------------------------------------------------ github search
\* A timestamp field of a node: missing or null, a text that is no ISO time, or a
\* time; _parse_dt gives None (Null) for the first two.
NoTime == [kind |-> "none", t |-> Null]

JunkTime == [kind |-> "junk", t |-> Null]

At(t) == [kind |-> "time", t |-> t]

\* github_discussions.py 37-43
_parse_dt(value) == IF value.kind = "time" THEN value.t ELSE Null

\* a or b, for times
OrElse(a, b) == IF a # Null THEN a ELSE b

\* str(x or "").strip() of a field holding text or nothing (None)
stripped_text(x) == IF x = None THEN <<>> ELSE strip(x)

\* A node that is no object (null in the response).
NullNode == [dict |-> FALSE]

\* The candidate search builds from one node, or Skip when the loop continues
\* without one; clock is what datetime.now reads.
Skip == [skip |-> TRUE]

\* A node whose time equals since is dropped as well.
github_node_strict(node, since, clock) ==
  IF ~node.dict THEN Skip
  ELSE
    LET external_id == stripped_text(node.id)
        url == stripped_text(node.url)
        created_at == _parse_dt(node.createdAt)
        updated_at == _parse_dt(node.updatedAt)
        effective_time == OrElse(updated_at, OrElse(created_at, clock))
        title == IF node.title = None \/ node.title = <<>>
                 THEN <<"GitHub discussion mention">> ELSE strip(node.title)
        body == IF node.bodyText = None THEN <<>> ELSE node.bodyText
        repo_name == IF node.repository.dict
                     THEN stripped_text(node.repository.name) ELSE <<>>
        owner_login == IF node.repository.dict
                       THEN stripped_text(node.repository.owner) ELSE <<>>
        community == IF repo_name # <<>> /\ owner_login # <<>>
                     THEN owner_login \o <<"/">> \o repo_name
                     ELSE IF repo_name # <<>> THEN repo_name
                     ELSE <<"GitHub Discussions">>
    IN  IF external_id = <<>> \/ url = <<>> THEN Skip
        ELSE IF effective_time <= since THEN Skip
        ELSE [skip |-> FALSE, external_id |-> external_id, url |-> url,
              title |-> title,
              body_excerpt |-> body_excerpt("github_discussions", body),
              author |-> node.author, community |-> community,
              published_at |-> OrElse(created_at, effective_time)]

\* github_discussions.py 84-135, one pass of the loop
github_node(node, since, clock) ==
  IF ~node.dict THEN Skip
  ELSE
    LET external_id == stripped_text(node.id)
        url == stripped_text(node.url)
        created_at == _parse_dt(node.createdAt)
        updated_at == _parse_dt(node.updatedAt)
        effective_time == OrElse(updated_at, OrElse(created_at, clock))
        title == IF node.title = None \/ node.title = <<>>
                 THEN <<"GitHub discussion mention">> ELSE strip(node.title)
        body == IF node.bodyText = None THEN <<>> ELSE node.bodyText
        repo_name == IF node.repository.dict
                     THEN stripped_text(node.repository.name) ELSE <<>>
        owner_login == IF node.repository.dict
                       THEN stripped_text(node.repository.owner) ELSE <<>>
        community == IF repo_name # <<>> /\ owner_login # <<>>
                     THEN owner_login \o <<"/">> \o repo_name
                     ELSE IF repo_name # <<>> THEN repo_name
                     ELSE <<"GitHub Discussions">>
    IN  IF external_id = <<>> \/ url = <<>> THEN Skip
        ELSE IF effective_time < since THEN Skip
        ELSE [skip |-> FALSE, external_id |-> external_id, url |-> url,
              title |-> title,
              body_excerpt |-> body_excerpt("github_discussions", body),
              author |-> node.author, community |-> community,
              published_at |-> OrElse(created_at, effective_time)]

\* for node in nodes: ... results.append(...)
RECURSIVE search_loop(_, _, _, _)
search_loop(nodes, since, clock, results) ==
  IF nodes = <<>> THEN results
  ELSE LET candidate == github_node(Head(nodes), since, clock)
       IN  search_loop(Tail(nodes), since, clock,
                       IF candidate.skip THEN results ELSE Append(results, candidate))

\* first = min(max(limit, 1), 50)
page_size(limit) == Min(Max(limit, 1), 50)

\* The nodes of the responses looked at. since is SinceGap before the clock.
SinceGap == 100

FullNode(id, url, created, updated) ==
  [dict |-> TRUE, id |-> id, url |-> url, createdAt |-> created, updatedAt |-> updated,
   title |-> <<"T">>, bodyText |-> <<"b">>, author |-> <<"o">>,
   repository |-> [dict |-> TRUE, name |-> <<"r">>, owner |-> <<"acme">>]]

NodeTimes ==
  { NoTime, JunkTime, At(StartTime - SinceGap - 1), At(StartTime - SinceGap),
    At(StartTime - 1) }

Repositories ==
  { [dict |-> FALSE],
    [dict |-> TRUE, name |-> <<"r">>, owner |-> <<"acme">>],
    [dict |-> TRUE, name |-> <<"r">>, owner |-> None],
    [dict |-> TRUE, name |-> None, owner |-> <<"acme">>] }

Nodes ==
  {NullNode}
    \cup { FullNode(id, url, created, updated) :
             id \in {None, <<" ", " ">>, <<"D", "1">>, <<" ", "D", "2">>},
             url \in {None, <<"u">>}, created \in NodeTimes, updated \in NodeTimes }
    \cup { [FullNode(<<"D", "3">>, <<"u">>, At(StartTime - 1), NoTime)
              EXCEPT !.title = title, !.bodyText = body, !.author = author,
                     !.repository = repository] :
             title \in {None, <<>>, <<" ", "T">>}, author \in {None, <<"o">>},
             body \in {None, <<" ", "b", " ", " ", "c">>},
             repository \in Repositories }

Limits == {-1, 0, 1, 40, 50, 51, 100}

\* The responses: one or two nodes asked for with the default limit, a fixed pair
\* asked for with every limit, an error list, and a failed request.
SearchProbes ==
  { [call |-> "search", status |-> "ok", errors |-> FALSE, nodes |-> nodes,
     limit |-> 40, outcome |-> "none", first |-> Null, results |-> <<>>] :
      nodes \in { <<n>> : n \in Nodes } \cup { <<n, m>> : n \in Nodes, m \in Nodes } }
  \cup
  { [call |-> "search", status |-> status, errors |-> errors,
     nodes |-> << FullNode(<<"D", "1">>, <<"u">>, NoTime, At(StartTime - 1)), NullNode >>,
     limit |-> limit, outcome |-> "none", first |-> Null, results |-> <<>>] :
      status \in {"ok", "http_error"}, errors \in BOOLEAN, limit \in Limits }

\* github_discussions.py 51-137; since = now - SinceGap, datetime.now reads now.
github_search_call ==
  /\ adapter_probe.call = "search"
  /\ adapter_probe.outcome = "none"
  /\ adapter_probe' =
       IF adapter_probe.status # "ok" \/ adapter_probe.errors
       THEN [adapter_probe EXCEPT !.outcome = "raised",
                                  !.first = page_size(adapter_probe.limit)]
       ELSE [adapter_probe EXCEPT
               !.outcome = "returned",
               !.first = page_size(adapter_probe.limit),
               !.results = search_loop(adapter_probe.nodes, now - SinceGap, now, <<>>)]
  /\ UNCHANGED << now, lock_holder, store, feed, worker, delivery_log, retry_probe,
                  env_probe, search_log >>

InitAdapters ==
  /\ now = StartTime
  /\ lock_holder = "None"
  /\ worker_runs = <<>>
  /\ keyword_source_state = [p \in Pairs |-> NoRow]
  /\ mentions = <<>>
  /\ mention_matches = <<>>
  /\ alert_deliveries = <<>>
  /\ feed = [p \in Pairs |-> <<>>]
  /\ worker = [w \in Workers |-> Idle(Null)]
  /\ delivery_log = <<>>
  /\ retry_probe = NoProbe
  /\ env_probe = NoEnvProbe
  /\ adapter_probe \in
       { [call |-> "excerpt", source |-> "hackernews", text |-> t,
          returned |-> FALSE, body_excerpt |-> <<>>] : t \in Texts }
         \cup SearchProbes
  /\ search_log = NoSearches

\* An adapter's search builds the MentionCandidate of one item of the response.
excerpt_call ==
  /\ adapter_probe.call = "excerpt"
  /\ ~adapter_probe.returned
  /\ adapter_probe' =
       [adapter_probe EXCEPT !.returned = TRUE,
                             !.body_excerpt = body_excerpt(adapter_probe.source,
                                                           adapter_probe.text)]
  /\ UNCHANGED << now, lock_holder, store, feed, worker, delivery_log, retry_probe,
                  env_probe, search_log >>

\* The same text comes back from another source.
excerpt_next ==
  /\ adapter_probe.call = "excerpt"
  /\ adapter_probe.returned
  /\ \E source \in Adapters \ {adapter_probe.source} :
       adapter_probe' = [adapter_probe EXCEPT !.source = source, !.returned = FALSE,
                                              !.body_excerpt = <<>>]
  /\ UNCHANGED << now, lock_holder, store, feed, worker, delivery_log, retry_probe,
                  env_probe, search_log >>

NextAdapters == excerpt_call \/ excerpt_next \/ github_search_call

SpecAdapters == InitAdapters /\ [][NextAdapters]_vars

\* ------------------------------------------------------------ repeated invocations
\* The task loop under invocations that go on forever, one every four hours or
\* several at the same instant, with SOURCE_TASK_BATCH_SIZE loaded as 1 or as 2.
\* An invocation holds the lock for its whole task loop, so the loop is taken
\* as one step. The clock is kept within one calendar day by renaming the day:
\* the code reads of a time only its distance to the other times and to the UTC
\* midnight. A watermark older than LateSeconds is kept at that age (the loop
\* hands it to Search only), and time does not pass while a task is later than
\* that.
RepeatStep == 240 * SECONDS_PER_MINUTE
LateSeconds == 2 * RepeatStep
RepeatBatches == {1, 2}

\* The pairs fetch_due_source_tasks can return: enabled, of an active keyword and
\* profile, of a source with an adapter.
Fetchable ==
  { <<ks.keyword_id, ks.source>> : ks \in
      { r \in keyword_sources :
          /\ r.enabled
          /\ keywords[r.keyword_id].is_active
          /\ profiles[keywords[r.keyword_id].user_id].is_active
          /\ r.source \in _build_sources } }

\* pipeline.py 115-196 for the tasks fetched: the keyword_source_state the loop
\* may leave, given today's counters. A task is marked not enabled, deferred,
\* succeeded, or in error (the search raised, or the chain after it).
RECURSIVE process_tasks(_, _, _)
process_tasks(state, tasks, today) ==
  IF tasks = <<>> THEN {state}
  ELSE
    LET task == Head(tasks)
        counted == [today EXCEPT ![task.source] = @ + 1]
    IN  IF task.source \notin _build_sources
        THEN process_tasks(mark_source_task_error(state, task.keyword_id, task.source,
                                                  NotEnabledError,
                                                  settings.poll_interval_minutes),
                           Tail(tasks), today)
        ELSE IF _source_daily_limit_reached(task.source, today)
        THEN process_tasks(mark_source_task_error(state, task.keyword_id, task.source,
                                                  BudgetError,
                                                  _minutes_until_utc_day_rollover(now)),
                           Tail(tasks), today)
        ELSE process_tasks(mark_source_task_success(state, task.keyword_id, task.source,
                                                    now,
                                                    _poll_interval_for_source(task.source)),
                           Tail(tasks), counted)
             \cup process_tasks(mark_source_task_error(state, task.keyword_id, task.source,
                                                       SearchError,
                                                       _poll_interval_for_source(task.source)),
                                Tail(tasks), today)
             \cup process_tasks(mark_source_task_error(state, task.keyword_id, task.source,
                                                       ChainError,
                                                       _poll_interval_for_source(task.source)),
                                Tail(tasks), counted)

\* pipeline.py 22-57: one invocation of a host, its task loop from the fetch to
\* the last task, returning 0; search_log keeps which pairs it processed. A host
\* invokes run_once once per period.
poll_round(w) ==
  /\ worker[w].result = Null
  /\ \E today \in fetch_today_source_requests :
       \E q \in fetch_due_source_tasks(env_probe.loaded.source_task_batch_size,
                                       _build_sources) :
         /\ keyword_source_state' \in process_tasks(keyword_source_state, q, today)
         /\ search_log' =
              [p \in Pairs |->
                 [since |-> Null,
                  outcome |-> IF \E i \in DOMAIN q : p = <<q[i].keyword_id, q[i].source>>
                              THEN "processed" ELSE "none"]]
  /\ Set(w, Idle(0))
  /\ UNCHANGED << now, lock_holder, worker_runs, mentions, mention_matches,
                  alert_deliveries, feed, delivery_log, retry_probe, env_probe,
                  adapter_probe >>

\* A timestamp of the store d seconds later, seen from a clock that may have
\* been set back by a day.
Renamed(t, back) == IF t = Null THEN Null ELSE t - back

\* Four hours pass after an invocation, until the hosts invoke run_once
\* again.
elapse ==
  LET later == now + RepeatStep
      back == IF later >= StartTime + SECONDS_PER_DAY THEN SECONDS_PER_DAY ELSE 0
  IN
  /\ \E w \in Workers : worker[w].result # Null
  /\ \A p \in Pairs :
       keyword_source_state[p].next_poll_at # Null
         => keyword_source_state[p].next_poll_at >= later - LateSeconds
  /\ now' = later - back
  /\ keyword_source_state' =
       [p \in Pairs |->
          [keyword_source_state[p] EXCEPT
             !.next_poll_at = Renamed(@, back),
             !.last_checked_at =
               IF @ = Null THEN Null ELSE Max(@, later - LateSeconds) - back]]
  /\ search_log' = NoSearches
  /\ worker' = [w \in Workers |-> Idle(Null)]
  /\ UNCHANGED << lock_holder, worker_runs, mentions, mention_matches, alert_deliveries,
                  feed, delivery_log, retry_probe, env_probe, adapter_probe >>

InitRepeat ==
  /\ now = StartTime
  /\ lock_holder = "None"
  /\ worker_runs = <<>>
  /\ keyword_source_state = [p \in Pairs |-> NoRow]
  /\ mentions = <<>>
  /\ mention_matches = <<>>
  /\ alert_deliveries = <<>>
  /\ feed \in { [p \in Pairs |-> <<>>] }
  /\ worker = [w \in Workers |-> Idle(Null)]
  /\ delivery_log = <<>>
  /\ retry_probe = NoProbe
  /\ \E b \in RepeatBatches :
       env_probe = [env |-> <<>>, outcome |-> "loaded",
                    loaded |-> [source_task_batch_size |-> b]]
  /\ adapter_probe = NoAdapterProbe
  /\ search_log = NoSearches

NextRepeat ==
  \/ \E w \in Workers : poll_round(w)
  \/ elapse

\* Invocations keep coming and time keeps passing.
SpecRepeat ==
  /\ InitRepeat /\ [][NextRepeat]_vars
  /\ WF_vars(\E w \in Workers : poll_round(w))
  /\ WF_vars(elapse)

\* ------------------------------------------------------------ repeated invocations, alerts
\* The alert loop under invocations that go on forever, one every AlertStep
\* seconds or several at the same instant, over a store of two mentions. The
\* clock is renamed after every period so that now stays where it is: the
\* loop reads of next_attempt_at only its distance to now(). A next_attempt_at
\* older than AlertLate is kept at that age.
AlertStep == settings.retry_base_seconds
AlertLate == AlertStep

\* What the task loop of an invocation may have committed before the alert
\* loop starts: nothing, or a new match of k1 with its alert (pipeline.py
\* 160-176).
TaskLoopRows ==
  { [matches |-> mention_matches, alerts |-> alert_deliveries] }
    \cup
  { [matches |-> mention_matches \o
                   insert_mention_match(mention_matches, <<>>, keywords[k].user_id, k, m).pending,
     alerts |-> alert_deliveries \o
                  enqueue_alert(alert_deliveries, <<>>, keywords[k].user_id, k, m).pending] :
      <<k, m>> \in { c \in {"k1"} \X DOMAIN mentions :
                       insert_mention_match(mention_matches, <<>>, keywords[c[1]].user_id,
                                            c[1], c[2]).inserted } }

\* pipeline.py 206-236 for the alerts fetched: the alert_deliveries the loop may
\* leave. An alert without a usable webhook has its retry scheduled; the send of
\* another returns or raises.
RECURSIVE process_alerts(_, _)
process_alerts(rows, alerts) ==
  IF alerts = <<>> THEN {rows}
  ELSE
    LET alert == Head(alerts)
        next_retry == alert.retry_count + 1
        retried(error) ==
          mark_alert_retry(rows, alert.alert_id, next_retry, settings.max_alert_retries,
                           now + _retry_delay_seconds(next_retry), error)
    IN  IF webhook_missing_or_invalid(alert.webhook_url)
        THEN process_alerts(retried(WebhookError), Tail(alerts))
        ELSE process_alerts(mark_alert_sent(rows, alert.alert_id), Tail(alerts))
             \cup process_alerts(retried(SendError), Tail(alerts))

\* pipeline.py 22-57, 198-236: one invocation of a host that completes, its
\* alert loop from the fetch to the last alert, returning 0.
alert_round(w) ==
  /\ worker[w].result = Null
  /\ \E new \in TaskLoopRows :
       \E q \in fetch_pending_alerts(new.alerts, settings.alert_batch_size,
                                     settings.max_alert_retries) :
         /\ mention_matches' = new.matches
         /\ alert_deliveries' \in process_alerts(new.alerts, q)
  /\ Set(w, Idle(0))
  /\ UNCHANGED << now, lock_holder, worker_runs, keyword_source_state, mentions, feed,
                  delivery_log, retry_probe, env_probe, adapter_probe, search_log >>

\* pipeline.py 58-71: an invocation that a store statement ends before the
\* alert loop is through, returning 1; the alerts before the statement were
\* processed and committed.
alert_round_failed(w) ==
  /\ worker[w].result = Null
  /\ \E new \in TaskLoopRows :
       \E q \in fetch_pending_alerts(new.alerts, settings.alert_batch_size,
                                     settings.max_alert_retries) :
         \E n \in 0..Max(Len(q) - 1, 0) :
           /\ mention_matches' = new.matches
           /\ alert_deliveries' \in process_alerts(new.alerts, SubSeq(q, 1, n))
  /\ Set(w, Idle(1))
  /\ UNCHANGED << now, lock_holder, worker_runs, keyword_source_state, mentions, feed,
                  delivery_log, retry_probe, env_probe, adapter_probe, search_log >>

\* AlertStep seconds pass after an invocation, until the hosts invoke run_once
\* again.
alert_elapse ==
  /\ \E w \in Workers : worker[w].result # Null
  /\ alert_deliveries' =
       [i \in DOMAIN alert_deliveries |->
          [alert_deliveries[i] EXCEPT
             !.next_attempt_at = Max(@ - AlertStep, now - AlertLate)]]
  /\ worker' = [w \in Workers |-> Idle(Null)]
  /\ UNCHANGED << now, lock_holder, worker_runs, keyword_source_state, mentions,
                  mention_matches, feed, delivery_log, retry_probe, env_probe,
                  adapter_probe, search_log >>

InitAlerts ==
  /\ now = StartTime
  /\ lock_holder = "None"
  /\ worker_runs = <<>>
  /\ keyword_source_state = [p \in Pairs |-> NoRow]
  /\ mentions = << [platform |-> "github_discussions", external_id |-> "x1"],
                   [platform |-> "github_discussions", external_id |-> "x2"] >>
  /\ mention_matches = << [user_id |-> "u1", keyword_id |-> "k1", mention_id |-> 1],
                          [user_id |-> "u2", keyword_id |-> "k2", mention_id |-> 1] >>
  /\ alert_deliveries =
       [i \in DOMAIN mention_matches |->
          [user_id |-> mention_matches[i].user_id,
           keyword_id |-> mention_matches[i].keyword_id,
           mention_id |-> mention_matches[i].mention_id, channel |-> "slack",
           status |-> "pending", retry_count |-> 0, next_attempt_at |-> now,
           last_error |-> NoError]]
  /\ feed \in { [p \in Pairs |-> <<>>] }
  /\ worker = [w \in Workers |-> Idle(Null)]
  /\ delivery_log = <<>>
  /\ retry_probe = NoProbe
  /\ env_probe = NoEnvProbe
  /\ adapter_probe = NoAdapterProbe
  /\ search_log = NoSearches

NextAlerts ==
  \/ \E w \in Workers : alert_round(w)
  \/ \E w \in Workers : alert_round_failed(w)
  \/ alert_elapse

\* Invocations keep coming, time keeps passing, and the store does not fail at
\* every invocation from some time on.
SpecAlerts ==
  /\ InitAlerts /\ [][NextAlerts]_vars
  /\ SF_vars(\E w \in Workers : alert_round(w))
  /\ WF_vars(alert_elapse)

\* ------------------------------------------------------------ claims
PairOf(task) == <<task.keyword_id, task.source>>

\* C1: of the invocations of run_once that overlap on the lock key, one works
\* (it holds the lock, creates the worker_runs row and runs the loops); an
\* invocation that asks for the lock while another holds it returns 0 and writes
\* nothing: no worker_runs row, no other row, and the holder is not disturbed.
C1_SingletonRun ==
  [][ /\ \A w \in Workers : worker'[w].pc # "idle" => lock_holder' = w
      /\ \A w \in Workers :
           (worker[w].pc = "idle" /\ lock_holder # "None" /\ worker'[w] # worker[w])
             => /\ worker'[w] = Idle(0)
                /\ store' = store
                /\ lock_holder' = lock_holder
                /\ delivery_log' = delivery_log
      /\ \A w \in Workers :
           (worker[w].pc = "idle" /\ worker'[w].pc # "idle")
             => lock_holder = "None" /\ worker'[w].pc = "locked"
      /\ store' # store
           => /\ lock_holder # "None"
              /\ worker[lock_holder].pc # "idle"
              /\ Len(worker_runs') > Len(worker_runs)
                   => worker'[lock_holder].run_id = Len(worker_runs')
    ]_vars

\* C1 witness: one invocation is searching inside the only run there is, and the
\* other has returned 0.
C1_Witness ==
  \E w1, w2 \in Workers :
    /\ worker[w1].pc = "search"
    /\ worker[w2] = Idle(0)
    /\ Len(worker_runs) = 1

\* The (platform, external_id) of a committed mention id.
MentionKey(id) == <<mentions[id].platform, mentions[id].external_id>>

\* The keys a task's polls can create: its mentions, matched to its user and keyword.
ExpectedKeys(p) ==
  { <<keywords[p[1]].user_id, <<p[2], feed[p][i]>>, p[1]>> : i \in DOMAIN feed[p] }

Polled(p) == keyword_source_state[p].last_checked_at # Null

\* The keys of the committed match rows and alert rows of a task's keyword.
MatchKeysOf(p) ==
  { <<mention_matches[i].user_id, MentionKey(mention_matches[i].mention_id),
      mention_matches[i].keyword_id>> :
      i \in { j \in DOMAIN mention_matches : mention_matches[j].keyword_id = p[1] } }

AlertKeysOf(p) ==
  { <<alert_deliveries[i].user_id, MentionKey(alert_deliveries[i].mention_id),
      alert_deliveries[i].keyword_id>> :
      i \in { j \in DOMAIN alert_deliveries : alert_deliveries[j].keyword_id = p[1] } }

FetchablePairs ==
  { p \in Pairs : \E ks \in keyword_sources :
      /\ p = <<ks.keyword_id, ks.source>>
      /\ ks.enabled
      /\ keywords[ks.keyword_id].is_active
      /\ profiles[keywords[ks.keyword_id].user_id].is_active
      /\ ks.source \in _build_sources }

\* C2: under a stable stream of responses, the mention, match and alert rows after
\* any number of successful polls of a task are those after its first one, and no
\* key is in two rows.
C2_Idempotent ==
  /\ \A i, j \in DOMAIN mentions : MentionKey(i) = MentionKey(j) => i = j
  /\ \A i, j \in DOMAIN mention_matches :
       (/\ mention_matches[i].user_id = mention_matches[j].user_id
        /\ mention_matches[i].mention_id = mention_matches[j].mention_id
        /\ mention_matches[i].keyword_id = mention_matches[j].keyword_id) => i = j
  /\ \A i, j \in DOMAIN alert_deliveries :
       (/\ alert_deliveries[i].user_id = alert_deliveries[j].user_id
        /\ alert_deliveries[i].mention_id = alert_deliveries[j].mention_id
        /\ alert_deliveries[i].keyword_id = alert_deliveries[j].keyword_id
        /\ alert_deliveries[i].channel = alert_deliveries[j].channel) => i = j
  /\ \A p \in FetchablePairs :
       /\ MatchKeysOf(p) = IF Polled(p) THEN ExpectedKeys(p) ELSE {}
       /\ AlertKeysOf(p) = MatchKeysOf(p)
  /\ { MentionKey(i) : i \in DOMAIN mentions }
       = UNION { { k[2] : k \in ExpectedKeys(p) } : p \in { q \in FetchablePairs : Polled(q) } }

\* C2 witness: the second run polled a task the first run had polled, found its one
\* mention matched already, and succeeded.
C2_Witness ==
  /\ \A p \in Pairs : feed[p] = <<"x1">>
  /\ Len(worker_runs) = 2
  /\ worker_runs[1].stats.matches_created >= 1
  /\ worker_runs[2].status = "success"
  /\ worker_runs[2].stats.matches_deduped >= 1
  /\ worker_runs[2].stats.tasks_succeeded >= 1

\* C3: for each mention of a response, enqueue_alert is called exactly when
\* insert_mention_match created the match; a duplicate match counts in
\* matches_deduped, enqueues nothing and lets the task go on, and the task whose
\* mentions are done is marked successful once and leaves the loop.
C3_EnqueueIffNewMatch ==
  [][ \A w \in Workers :
        LET a == worker[w]
            b == worker'[w]
        IN  /\ (a.pc = "mentions" /\ a.mentions # <<>> /\ b.pc = "mentions" /\ b # a)
                 => /\ (b.enqueue_calls = a.enqueue_calls + 1)
                         <=> (Len(b.txn.mention_matches) = Len(a.txn.mention_matches) + 1)
                    /\ b.enqueue_calls \in {a.enqueue_calls, a.enqueue_calls + 1}
                    /\ (Len(b.txn.mention_matches) = Len(a.txn.mention_matches))
                         => /\ b.stats.matches_deduped = a.stats.matches_deduped + 1
                            /\ b.stats.alerts_enqueued = a.stats.alerts_enqueued
                            /\ b.txn.alert_deliveries = a.txn.alert_deliveries
                            /\ b.tasks = a.tasks
                    /\ (Len(b.txn.mention_matches) = Len(a.txn.mention_matches) + 1)
                         => b.stats.matches_deduped = a.stats.matches_deduped
            /\ (a.pc = "mentions" /\ a.mentions = <<>> /\ b # a)
                 => /\ b.stats.tasks_succeeded = a.stats.tasks_succeeded + 1
                    /\ b.stats.task_errors = a.stats.task_errors
                    /\ b.tasks = Tail(a.tasks)
                    /\ keyword_source_state'[PairOf(Head(a.tasks))].last_error = NoError
    ]_vars

\* C3 witness: a run in which the one mention of a task was a duplicate match: one
\* upsert, one deduped match, enqueue_alert never called, the task marked successful.
C3_Witness ==
  \E w \in Workers :
    /\ worker[w].stats.mentions_upserted = 1
    /\ worker[w].stats.matches_deduped = 1
    /\ worker[w].stats.alerts_enqueued = 0
    /\ worker[w].enqueue_calls = 0
    /\ worker[w].stats.tasks_succeeded = 1

\* C4: a task reached while its source has a daily limit and today's count of the
\* source is at or over it is not searched in that run: it is marked in error with
\* the budget message and a backoff of 1 to 1440 minutes, tasks_deferred_budget
\* grows by one, and neither counter of the source changes.
C4_BudgetDeferral ==
  [][ \A w \in Workers :
        LET a == worker[w]
            b == worker'[w]
            task == Head(a.tasks)
            limit == daily_request_limit_for_source(task.source)
            row == keyword_source_state'[PairOf(task)]
        IN  /\ (/\ a.pc = "task"
                /\ limit # Null
                /\ a.source_requests_today[task.source] >= limit
                /\ b # a)
                 => /\ b.pc \in {"task", "alerts"}
                    /\ b.tasks = Tail(a.tasks)
                    /\ b.searched = a.searched
                    /\ PairOf(task) \notin b.searched
                    /\ PairOf(task) \in b.deferred
                    /\ row.last_error = BudgetError
                    /\ row.next_poll_at - now >= SECONDS_PER_MINUTE
                    /\ row.next_poll_at - now <= SECONDS_PER_DAY
                    /\ row.next_poll_at
                         = now + _minutes_until_utc_day_rollover(now) * SECONDS_PER_MINUTE
                    /\ b.stats.tasks_deferred_budget = a.stats.tasks_deferred_budget + 1
                    /\ b.stats.task_errors = a.stats.task_errors
                    /\ b.source_requests_today = a.source_requests_today
                    /\ b.source_requests_run = a.source_requests_run
            /\ b.searched \cap b.deferred = {}
    ]_vars

\* C4 witness: in one run a search used up the source's budget of the day and the
\* next task of the source was deferred, its row holding the budget message.
C4_Witness ==
  \E w \in Workers, p \in Pairs :
    /\ worker[w].source_requests_run[p[2]] = 1
    /\ worker[w].source_requests_today[p[2]] = daily_request_limit_for_source(p[2])
    /\ worker[w].stats.tasks_deferred_budget = 1
    /\ p \in worker[w].deferred
    /\ keyword_source_state[p].last_error = BudgetError

\* C5: when the search of a task raises, the task's next_poll_at is the time of the
\* error plus the poll interval of its source in minutes, last_error holds the error
\* text (cut to 800 characters), task_errors grows by one and the loop goes on.
C5_SearchErrorBackoff ==
  [][ \A w \in Workers :
        LET a == worker[w]
            b == worker'[w]
            task == Head(a.tasks)
            row == keyword_source_state'[PairOf(task)]
        IN  (a.pc = "search" /\ b # a /\ b.pc # "mentions")
              => /\ row.next_poll_at
                      = now + poll_interval_for_source(task.source) * SECONDS_PER_MINUTE
                 /\ row.last_error = Truncate800(SearchError)
                 /\ row.last_error.msg = SearchError.msg
                 /\ b.stats.task_errors = a.stats.task_errors + 1
                 /\ b.stats.tasks_succeeded = a.stats.tasks_succeeded
                 /\ b.pc \in {"task", "alerts"}
                 /\ b.tasks = Tail(a.tasks)
                 /\ b.run_id = a.run_id
    ]_vars

\* C5 witness: a search that took a minute raised for a source whose interval is
\* not the global one, and the row's next poll is counted from the time of the error.
C5_Witness ==
  \E w \in Workers, p \in Pairs :
    /\ poll_interval_for_source(p[2]) # settings.poll_interval_minutes
    /\ worker[w].stats.task_errors = 1
    /\ keyword_source_state[p].last_error = Truncate800(SearchError)
    /\ now > StartTime
    /\ keyword_source_state[p].next_poll_at
         = now + poll_interval_for_source(p[2]) * SECONDS_PER_MINUTE

\* C6: a step that marks a task in error (adapter failure, failure in the upsert
\* chain, budget deferral, source not enabled) leaves last_checked_at of every task
\* as it was; last_checked_at changes only when a poll succeeds.
C6_WatermarkOnlyOnSuccess ==
  [][ /\ \A p \in Pairs :
           LET old == keyword_source_state[p]
               new == keyword_source_state'[p]
           IN  /\ (new # old /\ new.last_error # NoError)
                    => new.last_checked_at = old.last_checked_at
               /\ new.last_checked_at # old.last_checked_at
                    => \E w \in Workers :
                         /\ worker[w].pc = "mentions"
                         /\ worker[w].mentions = <<>>
                         /\ PairOf(Head(worker[w].tasks)) = p
                         /\ new.last_checked_at = worker[w].task_now
                         /\ new.last_error = NoError
                         /\ worker'[w].stats.tasks_succeeded
                              = worker[w].stats.tasks_succeeded + 1
      /\ \A w \in Workers :
           (\/ worker'[w].stats.task_errors = worker[w].stats.task_errors + 1
            \/ worker'[w].stats.tasks_deferred_budget
                 = worker[w].stats.tasks_deferred_budget + 1)
             => \A p \in Pairs :
                  keyword_source_state'[p].last_checked_at
                    = keyword_source_state[p].last_checked_at
    ]_vars

\* C6 witness: a task polled with success before is now in error, its watermark
\* older than the clock.
C6_Witness ==
  \E p \in Pairs :
    /\ keyword_source_state[p].last_error # NoError
    /\ keyword_source_state[p].last_checked_at # Null
    /\ keyword_source_state[p].last_checked_at < now

\* C7: an alert never delivered has been attempted as many times as its retry_count
\* says, never more than max_alert_retries times and each time with next_attempt_at
\* passed; it is pending before its first attempt, failed after each attempt but the
\* last, and dead_letter with retry_count = max_alert_retries after the last.
C7_RetryLadder ==
  [][ /\ \A i \in DOMAIN alert_deliveries' :
           LET row == alert_deliveries'[i]
               log == IF i \in DOMAIN delivery_log' THEN delivery_log'[i]
                      ELSE [attempts |-> 0, sends |-> 0, delivered |-> 0]
               flying == \E w \in Workers :
                           /\ worker'[w].pc = "send"
                           /\ Head(worker'[w].alerts).alert_id = i
           IN  log.delivered = 0
                 => /\ log.attempts = row.retry_count + (IF flying THEN 1 ELSE 0)
                    /\ log.attempts <= settings.max_alert_retries
                    /\ row.status =
                         IF row.retry_count = 0 THEN "pending"
                         ELSE IF row.retry_count < settings.max_alert_retries THEN "failed"
                         ELSE "dead_letter"
                    /\ row.status = "dead_letter"
                         => /\ row.retry_count = settings.max_alert_retries
                            /\ log.attempts = settings.max_alert_retries
      /\ \A i \in DOMAIN alert_deliveries :
           (i \in DOMAIN delivery_log' /\ delivery_log'[i].attempts # LogOf(i).attempts)
             => /\ delivery_log'[i].attempts = LogOf(i).attempts + 1
                /\ alert_deliveries[i].status \in {"pending", "failed"}
                /\ alert_deliveries[i].next_attempt_at <= now
                /\ alert_deliveries[i].retry_count < settings.max_alert_retries
      /\ DOMAIN delivery_log' \subseteq DOMAIN alert_deliveries
    ]_vars

\* C7 witness: an alert whose sends all failed is dead_letter after
\* max_alert_retries attempts in successive runs, the webhook called each time.
C7_Witness ==
  \E i \in DOMAIN alert_deliveries :
    /\ alert_deliveries[i].status = "dead_letter"
    /\ alert_deliveries[i].retry_count = settings.max_alert_retries
    /\ LogOf(i).attempts = settings.max_alert_retries
    /\ LogOf(i).sends = settings.max_alert_retries
    /\ LogOf(i).delivered = 0
    /\ Len(worker_runs) = 2

\* C8: an alert row in status sent (its last_error null) or dead_letter is not
\* fetched, not changed and not sent again by any later step.
C8_TerminalStatuses ==
  [][ \A i \in DOMAIN alert_deliveries :
        alert_deliveries[i].status \in {"sent", "dead_letter"}
          => /\ alert_deliveries'[i] = alert_deliveries[i]
             /\ delivery_log'[i] = delivery_log[i]
             /\ \A w \in Workers : \A k \in DOMAIN worker'[w].alerts :
                  worker'[w].alerts[k].alert_id # i
             /\ \A w \in Workers : \A k \in DOMAIN worker[w].alerts :
                  worker[w].alerts[k].alert_id # i
             /\ alert_deliveries[i].status = "sent"
                  => alert_deliveries[i].last_error = NoError
    ]_vars

\* C8 witness: a later run fetches its alerts while one alert is sent and another
\* is dead_letter.
C8_Witness ==
  /\ \E i \in DOMAIN alert_deliveries : alert_deliveries[i].status = "sent"
  /\ \E i \in DOMAIN alert_deliveries : alert_deliveries[i].status = "dead_letter"
  /\ Len(worker_runs) = 2
  /\ \E w \in Workers : worker[w].pc = "finish" /\ worker[w].run_id = 2

\* C9: retry_count of an alert row never decreases: a failed attempt (send failure
\* or invalid webhook) adds exactly one to it, a successful send leaves it as it
\* was, and no other step changes it.
C9_RetryCountMonotone ==
  [][ /\ \A i \in DOMAIN alert_deliveries :
           /\ i \in DOMAIN alert_deliveries'
           /\ alert_deliveries'[i].retry_count >= alert_deliveries[i].retry_count
           /\ alert_deliveries'[i].retry_count # alert_deliveries[i].retry_count
                => \E w \in Workers :
                     /\ worker[w].pc \in {"alert", "send"}
                     /\ Head(worker[w].alerts).alert_id = i
                     /\ worker'[w].stats.alerts_failed = worker[w].stats.alerts_failed + 1
      /\ \A w \in Workers :
           LET a == worker[w]
               b == worker'[w]
               i == Head(a.alerts).alert_id
           IN  /\ (a.pc \in {"alert", "send"} /\ b.stats.alerts_failed # a.stats.alerts_failed)
                    => /\ b.stats.alerts_failed = a.stats.alerts_failed + 1
                       /\ alert_deliveries'[i].retry_count
                            = alert_deliveries[i].retry_count + 1
               /\ (a.pc \in {"alert", "send"} /\ b.stats.alerts_sent # a.stats.alerts_sent)
                    => /\ b.stats.alerts_sent = a.stats.alerts_sent + 1
                       /\ alert_deliveries'[i].status = "sent"
                       /\ alert_deliveries'[i].retry_count
                            = alert_deliveries[i].retry_count
    ]_vars

\* C9 witness: an alert that failed once was sent on its next attempt and keeps
\* retry_count 1, next to an alert that failed for its invalid webhook.
C9_Witness ==
  /\ \E i \in DOMAIN alert_deliveries :
       /\ alert_deliveries[i].status = "sent"
       /\ alert_deliveries[i].retry_count = 1
       /\ LogOf(i).sends = 2
  /\ \E i \in DOMAIN alert_deliveries :
       /\ alert_deliveries[i].retry_count >= 1
       /\ LogOf(i).sends = 0

\* base * 2^k by repeated doubling.
RECURSIVE Doubled(_, _)
Doubled(base, k) == IF k = 0 THEN base ELSE 2 * Doubled(base, k - 1)

StatCounters == DOMAIN ZeroStats

\* C11: run_once returns 0 exactly when the lock was refused or the run row was
\* finished as success, and 1 exactly when the run row was created and finished as
\* failed with the stats and the error; an exception after the run row was created
\* ends the invocation through the failed path: nothing uncommitted is kept and the
\* row is failed, or finish_worker_run raised again and the exception leaves run_once.
C11_ExitCodes ==
  [][ \A w \in Workers :
        LET a == worker[w]
            b == worker'[w]
        IN  /\ (a.pc = "idle" /\ b.pc = "idle" /\ b # a)
                 => /\ lock_holder \notin {"None", w}
                    /\ b.result = 0
                    /\ worker_runs' = worker_runs
            /\ (a.pc # "idle" /\ b.pc = "idle")
                 => /\ b.result \in {0, 1, Raised}
                    /\ b.result = 0
                         <=> /\ a.run_id # Null
                             /\ worker_runs[a.run_id].status = "running"
                             /\ worker_runs'[a.run_id].status = "success"
                    /\ b.result = 1
                         <=> /\ a.run_id # Null
                             /\ worker_runs[a.run_id].status = "running"
                             /\ worker_runs'[a.run_id].status = "failed"
                             /\ worker_runs'[a.run_id].error = StoreError
                             /\ \A c \in StatCounters :
                                  worker_runs'[a.run_id].stats[c] >= a.stats[c]
                             /\ worker_runs'[a.run_id].stats.tasks_polled
                                  = a.stats.tasks_polled
                    /\ (a.run_id # Null /\ b.result # 0)
                         => /\ mentions' = mentions
                            /\ mention_matches' = mention_matches
                            /\ alert_deliveries' = alert_deliveries
                            /\ keyword_source_state' = keyword_source_state
                            /\ b.result = Raised => worker_runs' = worker_runs
                    /\ a.run_id = Null => b.result = Raised /\ store' = store
    ]_vars

\* C11 witness: a run that recorded a task error failed at a later statement: its
\* row is failed with the stats and the error, and run_once returned 1.
C11_Witness ==
  \E w \in Workers :
    /\ worker[w] = Idle(1)
    /\ Len(worker_runs) = 1
    /\ worker_runs[1].status = "failed"
    /\ worker_runs[1].error = StoreError
    /\ worker_runs[1].stats.task_errors = 1
    /\ worker_runs[1].stats.tasks_polled = 2

\* C13: when run_once ends, by a refused lock, a success, a failed run or an
\* exception leaving it from create_worker_run or finish_worker_run, its connection
\* is closed and its session holds the lock no more: the lock is free whenever no
\* invocation is running, and the next invocation takes it.
C13_LockReleased ==
  [][ /\ \A w \in Workers : worker'[w].pc = "idle" => lock_holder' # w
      /\ (\A w \in Workers : worker'[w].pc = "idle") => lock_holder' = "None"
      /\ \A w \in Workers :
           (worker[w].pc = "idle" /\ lock_holder = "None" /\ worker'[w] # worker[w])
             => lock_holder' = w /\ worker'[w].pc = "locked"
    ]_vars

\* C13 witness: an invocation ended with an exception from finish_worker_run, its
\* row still running, and a later invocation holds the lock and has its own row.
C13_Witness ==
  \E w1, w2 \in Workers :
    /\ w1 # w2
    /\ worker[w1] = Idle(Raised)
    /\ Len(worker_runs) = 2
    /\ worker_runs[1].status = "running"
    /\ worker[w2].pc = "started"
    /\ worker[w2].run_id = 2
    /\ lock_holder = w2

\* C14: an error raised in the try block of a task (by the search, the upsert chain
\* or mark_source_task_success) is recorded and the loop goes on: the remaining
\* fetched tasks stay to be processed, then the alert loop; the run row stays
\* running, the lock held, and the run can end as a success.
C14_TaskErrorContained ==
  [][ \A w \in Workers :
        LET a == worker[w]
            b == worker'[w]
        IN  /\ (/\ a.pc \in {"search", "mentions"}
                /\ b.pc \notin {"idle", "search", "mentions"})
                 => /\ b.tasks = Tail(a.tasks)
                    /\ b.pc = IF Tail(a.tasks) = <<>> THEN "alerts" ELSE "task"
                    /\ b.run_id = a.run_id
                    /\ worker_runs' = worker_runs
                    /\ worker_runs[a.run_id].status = "running"
                    /\ lock_holder' = w
                    /\ b.stats.task_errors + b.stats.tasks_succeeded
                         = a.stats.task_errors + a.stats.tasks_succeeded + 1
                    /\ b.stats.task_errors = a.stats.task_errors + 1
                         => keyword_source_state'[PairOf(Head(a.tasks))].last_error
                              # NoError
            /\ (a.pc = "finish" /\ b.result = 0 /\ b.pc = "idle")
                 => /\ worker_runs'[a.run_id].status = "success"
                    /\ worker_runs'[a.run_id].stats = a.stats
    ]_vars

\* C14 witness: a run whose first task failed in mark_source_task_success went on
\* with its second task and its alerts and ended as a success.
C14_Witness ==
  /\ Len(worker_runs) >= 1
  /\ worker_runs[1].status = "success"
  /\ worker_runs[1].stats.task_errors = 1
  /\ worker_runs[1].stats.tasks_succeeded = 1
  /\ worker_runs[1].stats.alerts_attempted >= 1
  /\ \E p \in Pairs : keyword_source_state[p].last_error = Truncate800(StoreError)

\* The steps of an invocation in which an adapter call, a send or a store
\* statement fails.
Failing(w) ==
  \/ search_raises(w)
  \/ \E point \in ChainPoints : mention_raises(w, point)
  \/ send_raises(w)
  \/ create_run_raises(w)
  \/ snapshot_raises(w)
  \/ fetch_due_raises(w)
  \/ defer_mark_raises(w)
  \/ mark_success_raises(w)
  \/ task_error_mark_raises(w)
  \/ fetch_pending_raises(w)
  \/ alert_retry_mark_raises(w)
  \/ finish_success_raises(w)

\* C12: the steps of an invocation in which nothing fails go, after the lock, from
\* the run row to the snapshot of today's counters, through the source-task loop,
\* then the alert loop, to finish_worker_run with status success and the stats,
\* and run_once returns 0.
C12_HappyPath ==
  [][ \A w \in Workers :
        LET a == worker[w]
            b == worker'[w]
        IN  (b # a /\ a.pc # "idle" /\ ~Failing(w))
              => /\ a.pc = "locked"
                      => /\ b.pc = "started"
                         /\ b.run_id = Len(worker_runs')
                         /\ worker_runs'[b.run_id].status = "running"
                 /\ a.pc = "started"
                      => /\ b.pc = "tasks"
                         /\ b.source_requests_today \in fetch_today_source_requests
                         /\ b.source_requests_run = ZeroCounts
                 /\ a.pc = "tasks" => b.pc \in {"task", "alerts"}
                 /\ a.pc = "task" => b.pc \in {"search", "task", "alerts"}
                 /\ a.pc = "search" => b.pc = "mentions"
                 /\ a.pc = "mentions" => b.pc \in {"mentions", "task", "alerts"}
                 /\ a.pc = "alerts" => b.pc \in {"alert", "finish"}
                 /\ a.pc = "alert" => b.pc \in {"send", "alert", "finish"}
                 /\ a.pc = "send" => b.pc \in {"alert", "finish"}
                 /\ a.pc = "finish"
                      => /\ b = Idle(0)
                         /\ worker_runs'[a.run_id].status = "success"
                         /\ worker_runs'[a.run_id].stats = a.stats
                         /\ worker_runs'[a.run_id].source_requests = a.source_requests_run
                         /\ worker_runs'[a.run_id].source_requests_today_after
                              = a.source_requests_today
                         /\ worker_runs'[a.run_id].error = NoError
                 /\ a.pc \in {"started", "tasks", "task", "search", "mentions",
                              "alerts", "alert", "send"}
                      => b.run_id = a.run_id /\ lock_holder' = w
    ]_vars

\* C12 witness: a run in which nothing failed searched one task, deferred the
\* other, sent the alert of the new mention, and was finished as success with
\* run_once returning 0.
C12_Witness ==
  \E w \in Workers :
    /\ worker[w] = Idle(0)
    /\ Len(worker_runs) = 1
    /\ worker_runs[1].status = "success"
    /\ worker_runs[1].stats.task_errors = 0
    /\ worker_runs[1].stats.tasks_succeeded = 1
    /\ worker_runs[1].stats.tasks_deferred_budget = 1
    /\ worker_runs[1].stats.alerts_sent = 1
    /\ worker_runs[1].stats.alerts_failed = 0

\* The requests a run has made to a source: the tasks of the source it searched.
SearchedOf(local, source) == { p \in local.searched : p[2] = source }

\* C15: a search that raises is counted like one that returns: today[source] and
\* this_run[source] each grow by one, so that the searches of a run to a capped
\* source, failing or not, are at most the limit minus today's count at the start
\* of the run.
C15_FailedSearchCounts ==
  [][ \A w \in Workers :
        LET a == worker[w]
            b == worker'[w]
            source == Head(a.tasks).source
        IN  /\ (a.pc = "search" /\ b # a /\ b.pc \in {"task", "alerts"})
                 => /\ b.source_requests_today[source]
                         = a.source_requests_today[source] + 1
                    /\ b.source_requests_run[source] = a.source_requests_run[source] + 1
            /\ \A s \in source_keys :
                 (b.pc \notin {"idle", "locked", "started"}
                    /\ daily_request_limit_for_source(s) # Null)
                   => Cardinality(SearchedOf(b, s))
                        <= Max(daily_request_limit_for_source(s)
                                 - (b.source_requests_today[s] - b.source_requests_run[s]),
                               0)
    ]_vars

\* The batch sizes and the adapter maps the query is looked at with.
BatchSizes == 1..3
EnabledSets == { {}, {"github_discussions"}, {"google", "hackernews"}, source_keys }

\* C16: whatever the batch size and the enabled sources, every list
\* fetch_due_source_tasks can return holds only pairs of keyword_sources that are
\* enabled, of an active keyword of an active profile, with the source among the
\* enabled sources and next_poll_at null or not after now; no pair twice, at most
\* batch_size pairs, and none at all when no source is enabled.  The tasks a run
\* fetches are of this kind.
C16_FetchDueFilter ==
  /\ \A n \in BatchSizes : \A enabled_sources \in EnabledSets :
       \A q \in fetch_due_source_tasks(n, enabled_sources) :
         /\ Len(q) <= n
         /\ enabled_sources = {} => q = <<>>
         /\ \A i, j \in DOMAIN q : PairOf(q[i]) = PairOf(q[j]) => i = j
         /\ \A i \in DOMAIN q :
              LET st == keyword_source_state[PairOf(q[i])]
              IN  /\ [keyword_id |-> q[i].keyword_id, source |-> q[i].source,
                      enabled |-> TRUE] \in keyword_sources
                  /\ keywords[q[i].keyword_id].is_active
                  /\ q[i].user_id = keywords[q[i].keyword_id].user_id
                  /\ profiles[q[i].user_id].is_active
                  /\ q[i].source \in enabled_sources
                  /\ st.next_poll_at = Null \/ st.next_poll_at <= now
                  /\ q[i].last_checked_at = st.last_checked_at
  /\ \A w \in Workers :
       worker[w].pc = "task"
         => LET task == Head(worker[w].tasks)
                st == keyword_source_state[PairOf(task)]
            IN  /\ keywords[task.keyword_id].is_active
                /\ profiles[task.user_id].is_active
                /\ task.source \in _build_sources
                /\ st.next_poll_at = Null \/ st.next_poll_at <= now
                /\ Len(worker[w].tasks) <= settings.source_task_batch_size

\* C16 witness: a second run is at a task that is due again while another task,
\* deferred to the next day, is not among the fetched; pairs of an inactive keyword
\* and of an inactive profile were never polled.
C16_Witness ==
  \E w \in Workers, p \in Pairs :
    /\ worker[w].pc = "task"
    /\ worker[w].run_id = 2
    /\ Len(worker[w].tasks) = 1
    /\ keyword_source_state[PairOf(Head(worker[w].tasks))].next_poll_at # Null
    /\ keyword_source_state[p].next_poll_at > now
    /\ p[2] \in _build_sources
    /\ \A i \in DOMAIN worker[w].tasks : PairOf(worker[w].tasks[i]) # p
    /\ ~ keyword_source_state[<<"k3", "github_discussions">>].exists
    /\ ~ keyword_source_state[<<"k4", "github_discussions">>].exists

\* The alert rows the alert loop may attempt now.
DueAlerts ==
  { i \in DOMAIN alert_deliveries :
      /\ alert_deliveries[i].status \in {"pending", "failed"}
      /\ alert_deliveries[i].next_attempt_at <= now
      /\ alert_deliveries[i].retry_count < settings.max_alert_retries }

\* The alert rows no run has attempted: those the task loop has just enqueued.
NeverAttempted == { i \in DOMAIN alert_deliveries : LogOf(i).attempts = 0 }

\* C17: when the alert loop of an invocation fetches, the alerts its task loop
\* enqueued (as many as alerts_enqueued counts when no task failed) are
\* committed, pending and due, and are fetched unless more than
\* alert_batch_size alerts are due; a fetched alert whose send succeeds is sent in
\* that run and counted in alerts_sent, and a run whose batch was not full ends
\* with no alert left unattempted.
C17_NewAlertSameRun ==
  [][ \A w \in Workers :
        LET a == worker[w]
            b == worker'[w]
            fetched == { b.alerts[k].alert_id : k \in DOMAIN b.alerts }
        IN  /\ (a.pc = "alerts" /\ b # a /\ b.pc \in {"alert", "finish"})
                 => /\ a.txn = EmptyTxn
                    /\ a.stats.task_errors = 0
                         => Cardinality(NeverAttempted) = a.stats.alerts_enqueued
                    /\ \A i \in NeverAttempted :
                         /\ alert_deliveries[i].status = "pending"
                         /\ i \in DueAlerts
                    /\ Len(b.alerts) = Min(settings.alert_batch_size,
                                           Cardinality(DueAlerts))
                    /\ fetched \subseteq DueAlerts
                    /\ Cardinality(DueAlerts) <= settings.alert_batch_size
                         => NeverAttempted \subseteq fetched
                    /\ b.stats.alerts_attempted = Len(b.alerts)
            /\ (a.pc = "send" /\ b # a
                  /\ b.stats.alerts_sent = a.stats.alerts_sent + 1)
                 => /\ alert_deliveries'[Head(a.alerts).alert_id].status = "sent"
                    /\ b.run_id = a.run_id
            /\ (a.pc = "finish" /\ b = Idle(0)
                  /\ a.stats.alerts_attempted < settings.alert_batch_size)
                 => /\ NeverAttempted = {}
                    /\ a.stats.alerts_attempted
                         = a.stats.alerts_sent + a.stats.alerts_failed
    ]_vars

\* C17 witness: the first run found one new mention, enqueued its alert, sent it
\* and ended as success with matches_created, alerts_enqueued and alerts_sent at 1.
C17_Witness ==
  /\ Len(worker_runs) = 1
  /\ worker_runs[1].status = "success"
  /\ worker_runs[1].stats.matches_created = 1
  /\ worker_runs[1].stats.alerts_enqueued = 1
  /\ worker_runs[1].stats.alerts_attempted = 1
  /\ worker_runs[1].stats.alerts_sent = 1
  /\ Len(alert_deliveries) = 1
  /\ alert_deliveries[1].status = "sent"

\* The longest error text the store is meant to hold.
ErrorTextLimit == Truncate800(StoreError).len

\* C18: every error text in the store is at most 800 characters long: last_error
\* of a source-task state row, last_error of an alert row and error of a
\* worker_runs row.
C18_ErrorsTruncated ==
  /\ \A p \in Pairs : keyword_source_state[p].last_error.len <= ErrorTextLimit
  /\ \A i \in DOMAIN alert_deliveries :
       alert_deliveries[i].last_error.len <= ErrorTextLimit
  /\ \A r \in DOMAIN worker_runs : worker_runs[r].error.len <= ErrorTextLimit

\* The variable names of a loaded environment, by what they configure.
FreeTierModeVar == << "FREE_TIER_MODE" >>

TrueWords == { <<"1">>, <<"t", "r", "u", "e">>, <<"y", "e", "s">>, <<"o", "n">> }

\* The default a boolean variable of the environment falls back to.
DefaultOf(name) ==
  IF name = FreeTierModeVar THEN TRUE ELSE DefinitionOf(name[2]).default_enabled

\* The value load_settings gave the setting a boolean variable configures.
LoadedBool(name) ==
  IF name = FreeTierModeVar THEN env_probe.loaded.free_tier_mode
  ELSE env_probe.loaded.source_enabled[name[2]]

BoolVars ==
  {FreeTierModeVar} \cup { SourceVar(key, "ENABLED") : key \in source_keys }

\* C19 as stated: a boolean variable reads as true when its text is one of 1,
\* true, yes, on in any case, and as the setting's default when it has any other
\* text or is not set.
C19_BoolOrDefault ==
  env_probe.outcome = "loaded"
    => \A name \in BoolVars :
         LET value == getenv(env_probe.env, name)
         IN  IF value # None /\ lower(value) \in TrueWords
             THEN LoadedBool(name) = TRUE
             ELSE LoadedBool(name) = DefaultOf(name)

\* C19: a boolean variable reads as true when its text is one of 1, true, yes,
\* on in any case, as false when it has any other text (the empty text and a
\* padded true word included), and as the setting's default only when it is not
\* set.
C19_BoolParse ==
  env_probe.outcome = "loaded"
    => \A name \in BoolVars :
         LET value == getenv(env_probe.env, name)
         IN  /\ value = None => LoadedBool(name) = DefaultOf(name)
             /\ (value # None /\ lower(value) \in TrueWords) => LoadedBool(name) = TRUE
             /\ (value # None /\ lower(value) \notin TrueWords)
                  => LoadedBool(name) = FALSE

\* C19 witness: FREE_TIER_MODE=false was loaded as false although the default is
\* true, and a source enabled by default was switched off by "no".
C19_Witness ==
  /\ env_probe.outcome = "loaded"
  /\ getenv(env_probe.env, FreeTierModeVar) = <<"f", "a", "l", "s", "e">>
  /\ env_probe.loaded.free_tier_mode = FALSE
  /\ \E key \in source_keys :
       /\ DefinitionOf(key).default_enabled
       /\ getenv(env_probe.env, SourceVar(key, "ENABLED")) = <<"n", "o">>
       /\ env_probe.loaded.source_enabled[key] = FALSE

\* What a source's limit falls back to when none is configured.
FallbackLimit(key) ==
  IF env_probe.loaded.free_tier_mode
  THEN DefinitionOf(key).free_tier_daily_limit ELSE Null

\* C20 as stated: a source's daily request limit is the configured integer
\* whenever the variable is set, and the fallback (the registry's free-tier limit
\* in free-tier mode, none otherwise) when it is not set.
C20_LimitAsConfigured ==
  env_probe.outcome = "loaded"
    => \A key \in source_keys :
         LET value == getenv(env_probe.env, SourceVar(key, "DAILY_REQUEST_LIMIT"))
             limit == env_probe.loaded.source_daily_request_limit[key]
         IN  /\ value = None => limit = FallbackLimit(key)
             /\ (value # None /\ ~int_raises(strip(value)))
                  => limit = int(strip(value))

\* C20: a source's daily request limit is the configured integer when the
\* variable is set to an integer of at least 1 (spaces around it ignored); when it
\* is not set, blank, or an integer below 1, it is the registry's free-tier limit
\* in free-tier mode and none otherwise; a text that is no integer makes
\* load_settings fail.
C20_DailyLimit ==
  /\ env_probe.outcome = "loaded"
       => \A key \in source_keys :
            LET value == getenv(env_probe.env, SourceVar(key, "DAILY_REQUEST_LIMIT"))
                limit == env_probe.loaded.source_daily_request_limit[key]
                free == getenv(env_probe.env, FreeTierModeVar)
            IN  /\ env_probe.loaded.free_tier_mode
                     = (free = None \/ lower(free) \in TrueWords)
                /\ IF value # None /\ strip(value) # <<>> /\ int(strip(value)) >= 1
                   THEN limit = int(strip(value))
                   ELSE limit = FallbackLimit(key)
  /\ env_probe.outcome # "none"
       => (env_probe.outcome = "ValueError"
             <=> \E key \in source_keys :
                   LET value == getenv(env_probe.env,
                                       SourceVar(key, "DAILY_REQUEST_LIMIT"))
                   IN  value # None /\ strip(value) # <<>> /\ int_raises(strip(value)))
  /\ env_probe.outcome = "none" => env_probe.loaded = <<>>

\* C20 witness: a limit configured as 0 was loaded in free-tier mode and the
\* source got the registry's free-tier limit.
C20_Witness ==
  /\ env_probe.outcome = "loaded"
  /\ env_probe.loaded.free_tier_mode
  /\ \E key \in source_keys :
       /\ getenv(env_probe.env, SourceVar(key, "DAILY_REQUEST_LIMIT")) = <<"0">>
       /\ env_probe.loaded.source_daily_request_limit[key]
            = DefinitionOf(key).free_tier_daily_limit

\* C21: the body_excerpt an adapter returns is at most 500 characters long and
\* holds no two whitespace characters in a row.
C21_ExcerptNormalised ==
  (adapter_probe.call = "excerpt" /\ adapter_probe.returned)
    => LET excerpt == adapter_probe.body_excerpt
       IN  /\ Len(excerpt) <= BODY_EXCERPT_CHARS
           /\ \A i \in 1..(Len(excerpt) - 1) :
                ~(excerpt[i] \in Whitespace /\ excerpt[i + 1] \in Whitespace)

\* A node of a response is older than since: its updatedAt, or else its
\* createdAt, is a time before since.
Older(node, since) ==
  LET effective == IF node.updatedAt.kind = "time" THEN node.updatedAt
                   ELSE node.createdAt
  IN  effective.kind = "time" /\ effective.t < since

\* A node search is to return: an object with an id and a url that are not
\* empty (blank counts as empty) and that is not older than since.
Wanted(node, since) ==
  /\ node.dict
  /\ node.id # None /\ strip(node.id) # <<>>
  /\ node.url # None /\ strip(node.url) # <<>>
  /\ ~Older(node, since)

C23_RequestCounted ==
  [][ \A w \in Workers :
        LET a == worker[w]
            b == worker'[w]
        IN  /\ (a.pc = "search" /\ b.pc = "mentions")
                 => LET task == Head(a.tasks)
                        found == feed[<<task.keyword_id, task.source>>]
                    IN  /\ b.mentions = found
                        /\ b.source_requests_today
                             = [a.source_requests_today EXCEPT ![task.source] = @ + 1]
                        /\ b.source_requests_run
                             = [a.source_requests_run EXCEPT ![task.source] = @ + 1]
                        /\ b.stats.source_mentions_fetched
                             = a.stats.source_mentions_fetched + Len(found)
            /\ (a.pc \in {"tasks", "task", "mentions", "alerts", "alert", "send"}
                  /\ b.pc # "idle")
                 => /\ b.source_requests_today = a.source_requests_today
                    /\ b.source_requests_run = a.source_requests_run
                    /\ b.stats.source_mentions_fetched = a.stats.source_mentions_fetched
    ]_vars

\* C23 witness: a run whose search returned nothing ended as success with the
\* request counted.
C23_Witness ==
  /\ Len(worker_runs) = 1
  /\ worker_runs[1].status = "success"
  /\ worker_runs[1].stats.tasks_succeeded >= 1
  /\ worker_runs[1].stats.source_mentions_fetched = 0
  /\ \E s \in source_keys : worker_runs[1].source_requests[s] = 1

\* Values of overlap_minutes the since of a task is computed with.
Overlaps == {-5, 0, 3}

\* C24: the since passed to Search is the task's last_checked_at, or the time of
\* the poll less 24 hours when there is none, less max(overlap_minutes, 0)
\* minutes; a task with a watermark whose poll failed is searched next with the
\* same since as in the failed poll.
C24_SinceWatermark ==
  [][ \A w \in Workers :
        LET a == worker[w]
            b == worker'[w]
        IN  (a.pc = "task" /\ b.pc = "search")
              => LET task == Head(a.tasks)
                     p == <<task.keyword_id, task.source>>
                     base == IF keyword_source_state[p].last_checked_at # Null
                             THEN keyword_source_state[p].last_checked_at
                             ELSE b.task_now - 24 * 60 * SECONDS_PER_MINUTE
                 IN  /\ b.task_now = now
                     /\ b.since = base - settings.overlap_minutes * SECONDS_PER_MINUTE
                     /\ \A o \in Overlaps :
                          since_for(task, now, o)
                            = base - (IF o > 0 THEN o ELSE 0) * SECONDS_PER_MINUTE
                     /\ search_log[p].outcome = "failed"
                          => /\ keyword_source_state[p].last_checked_at # Null
                             /\ keyword_source_state[p].last_error # NoError
                             /\ b.since = search_log[p].since
    ]_vars

\* C24 witness: a task with a watermark whose poll failed a minute ago is being
\* searched again, with the since of the failed poll.
C24_Witness ==
  \E w \in Workers :
    LET p == <<"k1", "github_discussions">>
    IN  /\ worker[w].pc = "search"
        /\ Head(worker[w].tasks).keyword_id = "k1"
        /\ Len(worker_runs) = 2
        /\ worker_runs[1].stats.task_errors >= 1
        /\ keyword_source_state[p].last_error = Truncate800(SearchError)
        /\ keyword_source_state[p].last_checked_at = StartTime - 10 * SECONDS_PER_MINUTE
        /\ worker[w].task_now > StartTime
        /\ worker[w].since
             = StartTime - 10 * SECONDS_PER_MINUTE
                 - settings.overlap_minutes * SECONDS_PER_MINUTE
        /\ search_log[p].since = worker[w].since

\* C25: when the Search of a task and its whole chain have completed, the task's
\* state gets last_checked_at = the time read before Search was called,
\* next_poll_at = that time plus poll_interval_for(source) minutes and no
\* last_error, and tasks_succeeded grows by 1; nothing else moves last_checked_at.
C25_TaskSuccess ==
  [][ /\ \A w \in Workers :
           LET a == worker[w]
               b == worker'[w]
           IN  /\ (a.pc = "mentions" /\ a.mentions = <<>> /\ b # a
                     /\ b.stats.task_errors = a.stats.task_errors
                     /\ b.pc \in {"task", "alerts"})
                    => LET task == Head(a.tasks)
                           p == <<task.keyword_id, task.source>>
                       IN  /\ a.task_now # Null /\ a.task_now <= now
                           /\ keyword_source_state'[p]
                                = [exists |-> TRUE,
                                   last_checked_at |-> a.task_now,
                                   next_poll_at |-> a.task_now
                                     + poll_interval_for_source(task.source)
                                         * SECONDS_PER_MINUTE,
                                   last_error |-> NoError]
                           /\ b.stats.tasks_succeeded = a.stats.tasks_succeeded + 1
               /\ (b.run_id = a.run_id /\ a.run_id # Null
                     /\ b.stats.tasks_succeeded # a.stats.tasks_succeeded)
                    => (a.pc = "mentions" /\ a.mentions = <<>>)
      /\ \A p \in Pairs :
           keyword_source_state'[p].last_checked_at # keyword_source_state[p].last_checked_at
             => \E w \in Workers :
                  /\ worker[w].pc = "mentions"
                  /\ worker[w].mentions = <<>>
                  /\ p = <<Head(worker[w].tasks).keyword_id, Head(worker[w].tasks).source>>
    ]_vars

\* C25 witness: in the first run a search took a minute; the task's success is
\* recorded at the time read before the search, its next poll a minute later.
C25_Witness ==
  \E w \in Workers :
    LET p == <<"k1", "github_discussions">>
    IN  /\ Len(worker_runs) = 1
        /\ worker[w].pc \in {"task", "alerts"}
        /\ worker[w].stats.tasks_succeeded = 1
        /\ worker[w].stats.task_errors = 0
        /\ now = StartTime + SECONDS_PER_MINUTE
        /\ keyword_source_state[p].last_checked_at = StartTime
        /\ keyword_source_state[p].next_poll_at = StartTime + SECONDS_PER_MINUTE
        /\ keyword_source_state[p].last_error = NoError

\* C26: within a run the due tasks are processed in ascending order of
\* next_poll_at (a task never polled counts as due now, as in the query), one
\* after the other from the front of the fetched list, and within a task the
\* mentions are upserted in the order the adapter returned them: the rows of
\* one platform stand in the mentions table in the order of the response.
TasksAscending(tasks) ==
  \A i, j \in DOMAIN tasks : i < j => PollKey(tasks[i]) <= PollKey(tasks[j])

PositionOf(rows, platform, external_id) ==
  { i \in DOMAIN rows : rows[i].platform = platform /\ rows[i].external_id = external_id }

InResponseOrder(rows) ==
  \A platform \in { rows[i].platform : i \in DOMAIN rows } :
    \A i \in PositionOf(rows, platform, OrderedResponse[2]) :
      \E j \in PositionOf(rows, platform, OrderedResponse[1]) : j < i

C26_Ordering ==
  [][ \A w \in Workers :
        LET a == worker[w]
            b == worker'[w]
        IN  /\ (a.pc = "tasks" /\ b.pc # "tasks") => TasksAscending(b.tasks)
            /\ (a.pc # "tasks" /\ a.tasks # <<>> /\ b.tasks # a.tasks)
                  => (b.tasks = Tail(a.tasks) \/ b.pc \in {"alerts", "idle"})
            /\ (a.pc = "search" /\ b.pc = "mentions")
                  => b.mentions = feed[<<Head(a.tasks).keyword_id, Head(a.tasks).source>>]
            /\ (a.pc = "mentions" /\ b.pc = "mentions" /\ b.mentions # a.mentions)
                  => /\ b.mentions = Tail(a.mentions)
                     /\ \E i \in PositionOf(mentions \o b.txn.mentions,
                                              Head(a.tasks).source, Head(a.mentions)) : TRUE
            /\ InResponseOrder(mentions' \o b.txn.mentions)
    ]_vars

\* C26 witness: a run fetched the task polled before ahead of one never polled,
\* and the first task's two mentions are committed.
C26_Witness ==
  \E w \in Workers :
    /\ worker[w].pc = "task"
    /\ Len(worker[w].tasks) = 1
    /\ Head(worker[w].tasks).last_checked_at = Null
    /\ worker[w].stats.tasks_polled = 2
    /\ worker[w].stats.tasks_succeeded = 1
    /\ Len(mentions) = 2
    /\ mentions[1].external_id = OrderedResponse[1]
    /\ mentions[2].external_id = OrderedResponse[2]

\* C27: with max_alert_retries fixed, every alert row satisfies: status pending
\* implies retry_count = 0, status failed implies 1 <= retry_count <
\* max_alert_retries, and status dead_letter implies retry_count >=
\* max_alert_retries; this holds of the committed rows and of the rows as every
\* open transaction sees them.
AlertRowConsistent(row) ==
  /\ row.status = "pending" => row.retry_count = 0
  /\ row.status = "failed"
       => (1 <= row.retry_count /\ row.retry_count < settings.max_alert_retries)
  /\ row.status = "dead_letter" => row.retry_count >= settings.max_alert_retries

C27_AlertRows ==
  /\ \A i \in DOMAIN alert_deliveries : AlertRowConsistent(alert_deliveries[i])
  /\ \A w \in Workers :
       \A i \in DOMAIN ViewAlerts(w) : AlertRowConsistent(ViewAlerts(w)[i])

\* C27 witness: one alert failed twice and is dead, another failed once and
\* waits for its retry.
C27_Witness ==
  \E i, j \in DOMAIN alert_deliveries :
    /\ alert_deliveries[i].status = "dead_letter"
    /\ alert_deliveries[i].retry_count = settings.max_alert_retries
    /\ alert_deliveries[j].status = "failed"
    /\ alert_deliveries[j].retry_count = 1
    /\ LogOf(i).attempts = 2
    /\ LogOf(j).attempts = 1

\* C28: for an alert whose webhook is null or does not begin with "http", Send
\* is not invoked; the attempt fails with the message "Slack webhook missing or
\* invalid", the retry is scheduled as after a failed send (retry_count + 1,
\* now + the retry delay, failed below max_alert_retries and dead_letter from
\* there), and alerts_failed grows by one.
NoUsableWebhook(url) ==
  \/ url.is_none
  \/ Len(url.text) < 4
  \/ SubSeq(url.text, 1, 4) # <<"h", "t", "t", "p">>

RetryScheduled(row, alert, message) ==
  /\ row.retry_count = alert.retry_count + 1
  /\ row.next_attempt_at = now + _retry_delay_seconds(alert.retry_count + 1)
  /\ row.status = IF alert.retry_count + 1 < settings.max_alert_retries
                  THEN "failed" ELSE "dead_letter"
  /\ row.last_error.msg = message

C28_WebhookInvalid ==
  [][ \A w \in Workers :
        LET a == worker[w]
            b == worker'[w]
            alert == Head(a.alerts)
            id == alert.alert_id
            sends_after == IF id \in DOMAIN delivery_log' THEN delivery_log'[id].sends ELSE 0
        IN  /\ (a.pc = "alert" /\ b # a /\ NoUsableWebhook(alert.webhook_url))
                 => /\ b.pc # "send"
                    /\ sends_after = LogOf(id).sends
                    /\ RetryScheduled(alert_deliveries'[id], alert,
                                      "Slack webhook missing or invalid")
                    /\ b.stats.alerts_failed = a.stats.alerts_failed + 1
                    /\ b.stats.alerts_sent = a.stats.alerts_sent
                    /\ b.alerts = Tail(a.alerts)
            /\ (a.pc = "alert" /\ b.pc = "send")
                 => ~ NoUsableWebhook(alert.webhook_url)
            /\ (a.pc = "send" /\ b # a /\ alert_deliveries'[id].status # "sent")
                 => /\ RetryScheduled(alert_deliveries'[id], alert, SendError.msg)
                    /\ b.stats.alerts_failed = a.stats.alerts_failed + 1
    ]_vars

\* C28 witness: an alert of a user without a usable webhook failed once without a
\* Send, waits as failed with that message, and is fetched again in a later run,
\* its webhook now read as a text that is not a URL.
C28_Witness ==
  \E w \in Workers :
    /\ worker[w].pc = "alert"
    /\ LET alert == Head(worker[w].alerts)
           id == alert.alert_id
       IN  /\ alert.webhook_url = NotAUrl
           /\ alert.retry_count = 1
           /\ alert_deliveries[id].status = "failed"
           /\ alert_deliveries[id].last_error = WebhookError
           /\ alert_deliveries[id].next_attempt_at = StartTime + _retry_delay_seconds(1)
           /\ LogOf(id).attempts = 1
           /\ LogOf(id).sends = 0

\* C29: the alert loop attempts only alerts that are pending or failed, whose
\* next_attempt_at is not after now and whose retry_count is below
\* max_alert_retries; it fetches at most alert_batch_size of them per run, those
\* with the oldest next_attempt_at, in ascending order, and attempts them in that
\* order; an alert whose next_attempt_at is in the future is not attempted.
Attemptable(row) ==
  /\ row.status \in {"pending", "failed"}
  /\ row.next_attempt_at <= now
  /\ row.retry_count < settings.max_alert_retries

Attempts(log, id) == IF id \in DOMAIN log THEN log[id].attempts ELSE 0

C29_AlertLoop ==
  [][ /\ \A w \in Workers :
        LET a == worker[w]
            b == worker'[w]
            fetched == { b.alerts[k].alert_id : k \in DOMAIN b.alerts }
        IN  /\ (a.pc = "alerts" /\ b # a)
                 => /\ Len(b.alerts) <= settings.alert_batch_size
                    /\ Cardinality(fetched) = Len(b.alerts)
                    /\ Len(b.alerts) = Min(settings.alert_batch_size, Cardinality(DueAlerts))
                    /\ fetched \subseteq DueAlerts
                    /\ \A j, k \in DOMAIN b.alerts :
                         j < k => alert_deliveries[b.alerts[j].alert_id].next_attempt_at
                                    <= alert_deliveries[b.alerts[k].alert_id].next_attempt_at
                    /\ \A i \in fetched, o \in DueAlerts \ fetched :
                         alert_deliveries[i].next_attempt_at
                           <= alert_deliveries[o].next_attempt_at
                    /\ b.stats.alerts_attempted = Len(b.alerts)
            /\ (a.pc = "alert" /\ b # a)
                 => /\ Attemptable(alert_deliveries[Head(a.alerts).alert_id])
                    /\ Attempts(delivery_log', Head(a.alerts).alert_id)
                         = Attempts(delivery_log, Head(a.alerts).alert_id) + 1
                    /\ b.alerts = IF b.pc = "send" THEN a.alerts ELSE Tail(a.alerts)
      /\ \A id \in DOMAIN delivery_log' :
            Attempts(delivery_log', id) # Attempts(delivery_log, id)
              => /\ id \in DOMAIN alert_deliveries
                 /\ Attemptable(alert_deliveries[id])
                 /\ \E v \in Workers :
                      worker[v].pc = "alert" /\ Head(worker[v].alerts).alert_id = id
    ]_vars

\* C29 witness: two alerts failed in the first run and were due again a minute
\* later; the second run, two minutes after the first, enqueued two more, and
\* with four alerts due its alert loop has fetched the two older ones only.
C29_Witness ==
  \E w \in Workers :
    /\ worker[w].pc = "alert"
    /\ Len(worker_runs) = 2
    /\ Cardinality(DueAlerts) = 4
    /\ Len(worker[w].alerts) = settings.alert_batch_size
    /\ \A k \in DOMAIN worker[w].alerts :
         LET row == alert_deliveries[worker[w].alerts[k].alert_id]
         IN  row.status = "failed" /\ row.next_attempt_at < now
    /\ \E i \in DueAlerts :
         alert_deliveries[i].status = "pending" /\ alert_deliveries[i].next_attempt_at = now

\* C30: UpsertMention, InsertMatch and EnqueueAlert commit independently: the
\* mention, match and alert rows a task wrote before a later step of the same
\* task raises are still in the store after the task has been marked in error.
Kept_rows(written, table) ==
  /\ Len(table) >= Len(written)
  /\ \A i \in DOMAIN written : table[i] = written[i]

C30_IndependentCommits ==
  [][ \A w \in Workers :
        (/\ worker[w].pc = "mentions"
         /\ worker'[w].stats.task_errors = worker[w].stats.task_errors + 1)
          => /\ Kept_rows(ViewMentions(w), mentions')
             /\ Kept_rows(ViewMatches(w), mention_matches')
             /\ Kept_rows(ViewAlerts(w), alert_deliveries')
    ]_vars

\* C31: an exception raised while an alert is sent is recovered locally: the
\* alert's retry is scheduled (failed or dead_letter, retry_count + 1,
\* next_attempt_at = now + delay), alerts_failed grows by one, the loop goes on
\* with the remaining fetched alerts, and the run is not failed by it: its row
\* stays running, the lock stays held and the run ends as a success.
C31_SendRecovered ==
  /\ [][ \A w \in Workers :
           LET a == worker[w]
               b == worker'[w]
               id == Head(a.alerts).alert_id
           IN  (a.pc = "send" /\ b # a /\ delivery_log' = delivery_log)
                 => /\ alert_deliveries'[id].retry_count = Head(a.alerts).retry_count + 1
                    /\ alert_deliveries'[id].next_attempt_at
                         = now + _retry_delay_seconds(Head(a.alerts).retry_count + 1)
                    /\ alert_deliveries'[id].status \in {"failed", "dead_letter"}
                    /\ alert_deliveries'[id].last_error = SendError
                    /\ \A o \in DOMAIN alert_deliveries \ {id} :
                         alert_deliveries'[o] = alert_deliveries[o]
                    /\ b.stats = [a.stats EXCEPT !.alerts_failed = @ + 1]
                    /\ b.alerts = Tail(a.alerts)
                    /\ b.pc = IF Tail(a.alerts) = <<>> THEN "finish" ELSE "alert"
                    /\ b.run_id = a.run_id
                    /\ worker_runs' = worker_runs
                    /\ worker_runs[a.run_id].status = "running"
                    /\ lock_holder' = lock_holder /\ lock_holder = w
       ]_vars
  /\ [](\A r \in DOMAIN worker_runs :
          worker_runs[r].stats.alerts_failed > 0 => worker_runs[r].status = "success")

\* C31 witness: the send of the first of two fetched alerts raised; its retry is
\* scheduled and the second alert is being sent in the same run.
C31_Witness ==
  \E w \in Workers, id \in DOMAIN alert_deliveries :
    /\ worker[w].pc = "send"
    /\ worker[w].stats.alerts_attempted = 2
    /\ worker[w].stats.alerts_failed = 1
    /\ Len(worker[w].alerts) = 1
    /\ Head(worker[w].alerts).alert_id # id
    /\ alert_deliveries[id].status = "failed"
    /\ alert_deliveries[id].last_error = SendError
    /\ alert_deliveries[id].retry_count = 1
    /\ LogOf(id).sends = 1

\* C32: whenever an error is recovered locally, the transaction in flight is
\* rolled back before the error record is written, so the record is committed
\* even when the failed step was a store statement: a task whose search or chain
\* raises loses its uncommitted rows and has its error marked, and an alert whose
\* send or whose mark_alert_sent raises has its retry recorded.
C32_RollbackBeforeRecord ==
  [][ \A w \in Workers :
        LET a == worker[w]
            b == worker'[w]
        IN  /\ (a.pc \in {"search", "mentions"} /\ b # a /\ b.pc \notin {"search", "mentions"}
                   /\ b.stats.tasks_succeeded = a.stats.tasks_succeeded)
                 => LET task == Head(a.tasks)
                    IN  /\ keyword_source_state'[<<task.keyword_id, task.source>>].last_error
                             # NoError
                        /\ mentions' = mentions
                        /\ mention_matches' = mention_matches
                        /\ alert_deliveries' = alert_deliveries
                        /\ b.txn = EmptyTxn
            /\ (a.pc = "send" /\ b # a
                   /\ alert_deliveries'[Head(a.alerts).alert_id].status # "sent")
                 => LET row == alert_deliveries'[Head(a.alerts).alert_id]
                    IN  /\ row.retry_count = Head(a.alerts).retry_count + 1
                        /\ row.status \in {"failed", "dead_letter"}
                        /\ row.last_error \in {SendError, Truncate800(StoreError)}
    ]_vars

\* C33 as stated: across any sequence of invocations Send succeeds at most
\* once per alert, also when mark_alert_sent raises after the successful Send.
C33_SentAtMostOnce ==
  \A id \in DOMAIN delivery_log : delivery_log[id].delivered <= 1

\* C33: across any sequence of invocations, an alert for which Send returned
\* successfully and mark_alert_sent completed is never sent again: its row stays
\* sent, no invocation attempts it and Send is not called for it; a row is only
\* sent after a delivery. (When mark_alert_sent raises after the successful
\* Send the row is not sent, and a later attempt may send the alert again.)
C33_SentIsFinal ==
  /\ [][ \A id \in DOMAIN alert_deliveries :
           alert_deliveries[id].status = "sent"
             => /\ alert_deliveries'[id] = alert_deliveries[id]
                /\ delivery_log'[id] = delivery_log[id]
                /\ \A w \in Workers :
                     \A k \in DOMAIN worker'[w].alerts : worker'[w].alerts[k].alert_id # id
       ]_vars
  /\ [](\A id \in DOMAIN alert_deliveries :
          alert_deliveries[id].status = "sent" => LogOf(id).delivered >= 1)

\* C33 witness: an alert was sent and marked sent in the first run; the second
\* run found nothing to attempt and the alert was delivered once.
C33_Witness ==
  \E w \in Workers, id \in DOMAIN alert_deliveries :
    /\ Len(worker_runs) = 2
    /\ worker_runs[1].stats.alerts_sent = 1
    /\ worker[w].pc = "finish"
    /\ worker[w].stats.alerts_attempted = 0
    /\ alert_deliveries[id].status = "sent"
    /\ LogOf(id).delivered = 1
    /\ LogOf(id).sends = 1

\* C34: in every committed state of the store, also after a task failed at a
\* step of its chain, every match row has an alert row for the same (user_id,
\* mention_id, keyword_id): no match is persisted whose alert was never enqueued.
HasAlert(match) ==
  \E i \in DOMAIN alert_deliveries :
    /\ alert_deliveries[i].user_id = match.user_id
    /\ alert_deliveries[i].mention_id = match.mention_id
    /\ alert_deliveries[i].keyword_id = match.keyword_id

C34_MatchHasAlert ==
  /\ \A i \in DOMAIN mention_matches : HasAlert(mention_matches[i])
  /\ \A i \in DOMAIN mention_matches : mention_matches[i].mention_id \in DOMAIN mentions
  /\ Len(mention_matches) = Len(alert_deliveries)

\* C34 witness: an earlier run committed two matches and their alerts; in the
\* second run a task's first result was upserted, matched and enqueued, then
\* enqueue_alert raised for its second result, after its match was inserted, and
\* the task was marked in error with none of its rows persisted.
C34_Witness ==
  \E w \in Workers :
    /\ Len(worker_runs) = 2
    /\ worker[w].stats.task_errors = 1
    /\ worker[w].stats.matches_created = 2
    /\ worker[w].stats.alerts_enqueued = 1
    /\ worker[w].txn = EmptyTxn
    /\ Len(mention_matches) = 2
    /\ Len(alert_deliveries) = 2

\* A pair is due: fetch_due_source_tasks would return it, were the batch large
\* enough.
DuePair(p) ==
  /\ p \in Fetchable
  /\ (IF keyword_source_state[p].next_poll_at = Null THEN now
      ELSE keyword_source_state[p].next_poll_at) <= now

\* C35 as stated: under repeated invocations every due pair whose source has an
\* adapter is eventually processed, also a pair never polled before and also
\* when more pairs are due than source_task_batch_size.
C35_EveryDuePairProcessed ==
  \A p \in Fetchable : DuePair(p) ~> (search_log[p].outcome = "processed")

\* C35: under repeated invocations every due pair whose source has an adapter
\* is eventually processed (searched, deferred or marked in error), also a pair
\* never polled before, provided source_task_batch_size is not smaller than the
\* number of pairs that can be due.
C35_DuePairProcessed ==
  \A p \in Fetchable :
    (DuePair(p) /\ env_probe.loaded.source_task_batch_size >= Cardinality(Fetchable))
      ~> (search_log[p].outcome = "processed")

\* C35 witness: with a batch of two, both pairs are due, one of them never
\* polled, the other polled an invocation ago; the invocation processes both.
C35_Witness ==
  /\ env_probe.loaded.source_task_batch_size = 2
  /\ \A p \in Fetchable : search_log[p].outcome = "processed"
  /\ \E p, o \in Fetchable :
       /\ keyword_source_state[p].last_checked_at = now
       /\ keyword_source_state[p].next_poll_at > now
       /\ keyword_source_state[o].last_error.msg = SearchError.msg
       /\ keyword_source_state[o].last_checked_at = Null

\* An alert row that is still to be delivered or given up.
Open(i) ==
  /\ i \in DOMAIN alert_deliveries
  /\ alert_deliveries[i].status \in {"pending", "failed"}

\* C36: under repeated invocations with max_alert_retries fixed, every alert row
\* in status pending or failed eventually is in status sent or dead_letter.
C36_AlertSettled ==
  \A i \in 1..3 :
    Open(i) ~> (i \in DOMAIN alert_deliveries
                  /\ alert_deliveries[i].status \in {"sent", "dead_letter"})

\* C36 witness: three alerts are settled, one of them sent after a failed
\* attempt, one given up at max_alert_retries, while the batch holds two.
C36_Witness ==
  /\ Len(alert_deliveries) = 3
  /\ \A i \in DOMAIN alert_deliveries : ~Open(i)
  /\ \E i \in DOMAIN alert_deliveries :
       /\ alert_deliveries[i].status = "sent"
       /\ alert_deliveries[i].retry_count = 1
  /\ \E i \in DOMAIN alert_deliveries :
       /\ alert_deliveries[i].status = "dead_letter"
       /\ alert_deliveries[i].retry_count = settings.max_alert_retries

\* The invocation of w ends in this step, having created a run row.
Ends(w) ==
  /\ worker[w].pc # "idle"
  /\ worker[w].run_id # Null
  /\ worker'[w].pc = "idle"

\* C37 as stated: every worker_runs row in status running belongs to an
\* invocation that has not ended, whatever store statement failed.
C37_NoRunLeftRunning ==
  \A i \in DOMAIN worker_runs :
    worker_runs[i].status = "running"
      => \E w \in Workers : worker[w].pc # "idle" /\ worker[w].run_id = i

\* C37: when an invocation that created a worker_runs row returns (0 or 1), also
\* after a store statement failed during the run, its row is success or failed;
\* the row stays running only when the exception leaves run_once, which is when
\* finish_worker_run fails in the run-failure handling. A finished row keeps
\* its status.
C37_ReturnedRunFinished ==
  [][/\ \A w \in Workers :
          Ends(w) =>
            \/ /\ worker'[w].result \in {0, 1}
               /\ worker_runs'[worker[w].run_id].status \in {"success", "failed"}
            \/ /\ worker'[w].result = Raised
               /\ worker_runs'[worker[w].run_id].status = "running"
     /\ \A i \in DOMAIN worker_runs :
          worker_runs[i].status # "running"
            => worker_runs'[i].status = worker_runs[i].status]_vars

\* C37 witness: a run whose fetch of the due tasks failed was finished as failed
\* and returned 1, and a run after it was finished as success.
C37_Witness ==
  /\ Len(worker_runs) = 2
  /\ worker_runs[1].status = "failed"
  /\ worker_runs[1].error.msg = StoreError.msg
  /\ worker_runs[2].status = "success"
  /\ \E w \in Workers : worker[w].pc = "idle" /\ worker[w].result = 1
  /\ \E w \in Workers : worker[w].pc = "idle" /\ worker[w].result = 0

\* C38: the lock taken at the start of run_once leaves its session only in the
\* step that ends the invocation (the connection is closed): the steps that
\* commit or roll back, in the task loop, its handler and the run-failure
\* handling, keep it; and while it is held no other invocation gets past the
\* lock.
C38_LockHeldUntilClose ==
  [][\A w \in Workers :
       /\ (lock_holder = w /\ lock_holder' # w) => worker'[w].pc = "idle"
       /\ (lock_holder = w /\ worker'[w].pc # "idle")
            => \A v \in Workers \ {w} : worker'[v].pc = "idle"]_vars

\* C38 witness: the holder has rolled back a failed task and committed its error
\* mark, is still inside its run, and the other invocation asked for the lock
\* and returned 0.
C38_Witness ==
  \E w, v \in Workers :
    /\ w # v
    /\ lock_holder = w
    /\ worker[w].pc \in {"task", "alerts", "alert", "send"}
    /\ worker[w].stats.task_errors >= 1
    /\ \E p \in Pairs : keyword_source_state[p].last_error.msg = StoreError.msg
    /\ worker[v] = Idle(0)
    /\ Len(worker_runs) = 1

\* The sum of a stats counter over the run rows.
RECURSIVE Counted(_, _)
Counted(runs, counter) ==
  IF runs = <<>> THEN 0 ELSE Head(runs).stats[counter] + Counted(Tail(runs), counter)

\* C39: at the end of a run its counters matches_created and alerts_enqueued are
\* the numbers of match rows and alert rows the run left in the store, also when
\* a task failed after some of its mentions were processed: with no invocation
\* running, the counters of the runs so far add up to the rows of the tables,
\* which were empty before the first run. (mentions_upserted counts the upserts
\* of a rolled-back task in the same way.)
C39_StatsMatchStore ==
  (\A w \in Workers : worker[w].pc = "idle")
    => /\ Counted(worker_runs, "matches_created") = Len(mention_matches)
       /\ Counted(worker_runs, "alerts_enqueued") = Len(alert_deliveries)

\* The counters say that every fetched task has one outcome.
TasksAccounted(stats, left) ==
  stats.tasks_polled =
    stats.tasks_succeeded + stats.task_errors + stats.tasks_deferred_budget + left

\* The counters say that every fetched alert has one outcome.
AlertsAccounted(stats, left) ==
  stats.alerts_attempted = stats.alerts_sent + stats.alerts_failed + left

\* C40: every fetched item is counted in exactly one outcome counter. Inside the
\* task loop tasks_polled is the outcomes counted so far plus the tasks still to
\* come, and from the end of the loop on tasks_polled = tasks_succeeded +
\* task_errors + tasks_deferred_budget; likewise alerts_attempted = alerts_sent +
\* alerts_failed at the end of the alert loop, and in the stats of a run
\* finished as success.
C40_OneOutcomeEach ==
  /\ \A w \in Workers :
       LET a == worker[w]
       IN  /\ a.pc = "task" => TasksAccounted(a.stats, Len(a.tasks))
           /\ a.pc \in {"alerts", "alert", "send", "finish"} => TasksAccounted(a.stats, 0)
           /\ a.pc = "alert" => AlertsAccounted(a.stats, Len(a.alerts))
           /\ a.pc = "finish" => AlertsAccounted(a.stats, 0)
  /\ \A i \in DOMAIN worker_runs :
       worker_runs[i].status = "success"
         => /\ TasksAccounted(worker_runs[i].stats, 0)
            /\ AlertsAccounted(worker_runs[i].stats, 0)

\* C40 witness: a run finished as success that fetched two tasks, one succeeded
\* and one deferred, and two alerts, one sent and one failed.
C40_Witness ==
  \E i \in DOMAIN worker_runs :
    /\ worker_runs[i].status = "success"
    /\ worker_runs[i].stats.tasks_polled = 2
    /\ worker_runs[i].stats.tasks_succeeded = 1
    /\ worker_runs[i].stats.tasks_deferred_budget = 1
    /\ worker_runs[i].stats.alerts_attempted = 2
    /\ worker_runs[i].stats.alerts_sent = 1
    /\ worker_runs[i].stats.alerts_failed = 1

====
